---- MODULE Spec2Model ----
(***************************************************************************)
(* vidQuizify: the video pipeline of the transcription service               *)
(* (TranscriptionService: processVideo, startTranscription,                  *)
(* segmentTranscript, generateQuestionsForVideo, generateQuestions) and the  *)
(* upload service that triggers it (UploadsService.createVideo,              *)
(* startTranscriptionProcess).                                               *)
(*                                                                           *)
(* One Video record, its TranscriptSegment and Question collections, and a   *)
(* fixed set of concurrent activities (async calls).  Every await of the     *)
(* code is one step of the activity that executes it, so the writes of two   *)
(* activities interleave exactly where the event loop lets them.             *)
(*                                                                           *)
(* Strings are sequences of one-character strings; error messages are        *)
(* sequences of fragments (the template literal's pieces).                   *)
(***************************************************************************)
EXTENDS Integers, Sequences, FiniteSets, TLC

(***************************************************************************)
(* Program constants                                                         *)
(***************************************************************************)
SEGMENT_DURATION == 300

MAX_RETRIES == 3

RETRY_DELAY == 2000

GEN_RETRY_DELAY == 5000

(***************************************************************************)
(* Bounds of the model                                                       *)
(***************************************************************************)
\* operations (uploads, events, controller calls) launched in one behaviour
MaxOps == 2

\* largest duration (seconds) given to the segmenter in SpecSegmenter
MaxDuration == 1250

\* longest options array of a candidate given to the normalizer in SpecNormalizer
MaxOptions == 5

(***************************************************************************)
(* Strings                                                                   *)
(***************************************************************************)
IsSpace(c) == c = " "

RECURSIVE TrimLeft(_)
TrimLeft(s) ==
  IF s = <<>> THEN <<>>
  ELSE IF IsSpace(Head(s)) THEN TrimLeft(Tail(s)) ELSE s

RECURSIVE TrimRight(_)
TrimRight(s) ==
  IF s = <<>> THEN <<>>
  ELSE IF IsSpace(s[Len(s)]) THEN TrimRight(SubSeq(s, 1, Len(s) - 1)) ELSE s

\* String.prototype.trim
Trim(s) == TrimRight(TrimLeft(s))

\* String.prototype.split(/\s+/): the pieces between maximal runs of
\* whitespace; a leading or trailing run yields an empty piece, and the
\* empty string yields one empty piece.
RECURSIVE SplitFrom(_, _, _)
SplitFrom(s, cur, inRun) ==
  IF s = <<>> THEN <<cur>>
  ELSE IF IsSpace(Head(s))
       THEN IF inRun THEN SplitFrom(Tail(s), cur, TRUE)
            ELSE <<cur>> \o SplitFrom(Tail(s), <<>>, TRUE)
       ELSE SplitFrom(Tail(s), Append(cur, Head(s)), FALSE)

SplitWs(s) == SplitFrom(s, <<>>, FALSE)

\* Array.prototype.join(' ')
RECURSIVE JoinSp(_)
JoinSp(ws) ==
  IF ws = <<>> THEN <<>>
  ELSE IF Len(ws) = 1 THEN ws[1]
  ELSE ws[1] \o <<" ">> \o JoinSp(Tail(ws))

\* Array.prototype.slice(a, b) on 0-based offsets
Slice(ws, a, b) ==
  IF a >= b \/ a >= Len(ws) THEN <<>>
  ELSE SubSeq(ws, a + 1, IF b > Len(ws) THEN Len(ws) ELSE b)

DigitChar(d) ==
  CASE d = 0 -> "0" [] d = 1 -> "1" [] d = 2 -> "2" [] d = 3 -> "3"
    [] d = 4 -> "4" [] d = 5 -> "5" [] d = 6 -> "6" [] d = 7 -> "7"
    [] d = 8 -> "8" [] OTHER -> "9"

\* String(n) of an integer
RECURSIVE NatStr(_)
NatStr(n) ==
  IF n < 10 THEN <<DigitChar(n)>> ELSE NatStr(n \div 10) \o <<DigitChar(n % 10)>>

NumStr(n) == IF n < 0 THEN <<"-">> \o NatStr(0 - n) ELSE NatStr(n)

Min(a, b) == IF a < b THEN a ELSE b

Max(a, b) == IF a > b THEN a ELSE b

\* Math.ceil(a / b) for integers a >= 0, b > 0
CeilDiv(a, b) == (a + b - 1) \div b

(***************************************************************************)
(* Segmenter (segmentTranscript, the computation inside its try block)       *)
(***************************************************************************)
\* `Segment ${i + 1} of ${segmentCount}`
Placeholder(i, segmentCount) ==
  <<"S", "e", "g", "m", "e", "n", "t", " ">> \o NumStr(i + 1)
    \o <<" ", "o", "f", " ">> \o NumStr(segmentCount)

\* a faulty variant of SegmentText: no placeholder for an empty text
SegmentTextUnfilled(words, wordsPerSegment, i, segmentCount) ==
  JoinSp(Slice(words, i * wordsPerSegment, Min((i + 1) * wordsPerSegment, Len(words))))

SegmentText(words, wordsPerSegment, i, segmentCount) ==
  LET startWord == i * wordsPerSegment
      endWord == Min((i + 1) * wordsPerSegment, Len(words))
      segmentText == JoinSp(Slice(words, startWord, endWord))
  IN  IF segmentText = <<>> THEN Placeholder(i, segmentCount) ELSE segmentText

\* a faulty variant of ComputeSegments: the end of a window is not capped at the duration
ComputeSegmentsUncapped(transcript, duration) ==
  LET segmentCount == CeilDiv(duration, SEGMENT_DURATION)
      words == SplitWs(transcript)
      wordsPerSegment == CeilDiv(Len(words), segmentCount)
  IN  [j \in 1..segmentCount |->
         [index |-> j - 1,
          startTime |-> (j - 1) * SEGMENT_DURATION,
          endTime |-> j * SEGMENT_DURATION,
          text |-> SegmentText(words, wordsPerSegment, j - 1, segmentCount),
          status |-> "PENDING",
          error |-> <<>>]]

\* the documents pushed by the for loop, in push order
ComputeSegments(transcript, duration) ==
  LET segmentCount == CeilDiv(duration, SEGMENT_DURATION)
      words == SplitWs(transcript)
      wordsPerSegment == CeilDiv(Len(words), segmentCount)
  IN  [j \in 1..segmentCount |->
         [index |-> j - 1,
          startTime |-> (j - 1) * SEGMENT_DURATION,
          endTime |-> Min(j * SEGMENT_DURATION, duration),
          text |-> SegmentText(words, wordsPerSegment, j - 1, segmentCount),
          status |-> "PENDING",
          error |-> <<>>]]

(***************************************************************************)
(* JavaScript values of the generation endpoint's response                   *)
(***************************************************************************)
\* a primitive: undefined, null, a number or a string
Undef == [t |-> "undef", n |-> 0, s |-> <<>>]

Null == [t |-> "null", n |-> 0, s |-> <<>>]

Num(k) == [t |-> "num", n |-> k, s |-> <<>>]

StrV(str) == [t |-> "str", n |-> 0, s |-> str]

\* the result of a failed numeric conversion
NaN == [t |-> "nan", n |-> 0, s |-> <<>>]

\* an options value: undefined, an array of primitives, or a string
NoOpts == [t |-> "undef", items |-> <<>>, s |-> <<>>]

ArrV(items) == [t |-> "arr", items |-> items, s |-> <<>>]

\* a string holding the JSON encoding of the array `items`
JsonStrV(str, items) == [t |-> "str", items |-> items, s |-> str]

\* ToBoolean
Truthy(v) ==
  CASE v.t = "undef" -> FALSE
    [] v.t = "null" -> FALSE
    [] v.t = "nan" -> FALSE
    [] v.t = "num" -> v.n # 0
    [] OTHER -> v.s # <<>>

\* String(v) and v.toString()
ToStr(v) ==
  CASE v.t = "undef" -> <<"u", "n", "d", "e", "f", "i", "n", "e", "d">>
    [] v.t = "null" -> <<"n", "u", "l", "l">>
    [] v.t = "nan" -> <<"N", "a", "N">>
    [] v.t = "num" -> NumStr(v.n)
    [] OTHER -> v.s

IsDigit(c) == c \in {"0", "1", "2", "3", "4", "5", "6", "7", "8", "9"}

DigitVal(c) ==
  CASE c = "0" -> 0 [] c = "1" -> 1 [] c = "2" -> 2 [] c = "3" -> 3
    [] c = "4" -> 4 [] c = "5" -> 5 [] c = "6" -> 6 [] c = "7" -> 7
    [] c = "8" -> 8 [] OTHER -> 9

\* the longest prefix of digits of s
RECURSIVE DigitPrefix(_)
DigitPrefix(s) ==
  IF s = <<>> \/ ~IsDigit(Head(s)) THEN <<>>
  ELSE <<Head(s)>> \o DigitPrefix(Tail(s))

RECURSIVE DigitsVal(_, _)
DigitsVal(s, acc) ==
  IF s = <<>> THEN acc ELSE DigitsVal(Tail(s), acc * 10 + DigitVal(Head(s)))

\* parseInt(s, 10): leading whitespace, an optional sign, then digits
ParseInt(s) ==
  LET t == TrimLeft(s)
      neg == t # <<>> /\ Head(t) = "-"
      body == IF t # <<>> /\ Head(t) \in {"-", "+"} THEN Tail(t) ELSE t
      ds == DigitPrefix(body)
  IN  IF ds = <<>> THEN NaN
      ELSE Num(IF neg THEN 0 - DigitsVal(ds, 0) ELSE DigitsVal(ds, 0))

\* isNaN(Number(s)) for strings of this model's alphabet: the trimmed string
\* must be empty or an optionally signed run of digits
NumberIsNaN(s) ==
  LET t == Trim(s)
      body == IF t # <<>> /\ Head(t) \in {"-", "+"} THEN Tail(t) ELSE t
  IN  ~(t = <<>> \/ (body # <<>> /\ DigitPrefix(body) = body))

\* Math.max(0, Math.min(v, hi)) where v is a number or NaN
Clamp(v, hi) == IF v.t = "nan" THEN NaN ELSE Num(Max(0, Min(v.n, hi)))

RECURSIVE FilterNonEmpty(_)
FilterNonEmpty(ss) ==
  IF ss = <<>> THEN <<>>
  ELSE IF Head(ss) = <<>> THEN FilterNonEmpty(Tail(ss))
  ELSE <<Head(ss)>> \o FilterNonEmpty(Tail(ss))

\* items.map(opt => String(opt).trim()).filter(Boolean)
CleanOptions(items) ==
  FilterNonEmpty([i \in 1..Len(items) |-> Trim(ToStr(items[i]))])

(***************************************************************************)
(* Question normalizer (generateQuestions, the loop over the candidates)     *)
(***************************************************************************)
\* the candidate is skipped by the first two checks of the loop body
Skipped(q) ==
  \/ ~q.obj
  \/ ~Truthy(q.question)
  \/ q.options.t # "arr"
  \/ q.correctAnswer.t = "undef"

QuestionText(q) ==
  Trim(ToStr(IF Truthy(q.question) THEN q.question
             ELSE IF Truthy(q.Question) THEN q.Question ELSE StrV(<<>>)))

ResolveOptions(q) ==
  LET raw == IF q.options.t = "arr" THEN CleanOptions(q.options.items)
             ELSE IF q.Options.t = "arr" THEN CleanOptions(q.Options.items)
             ELSE IF q.options.t = "str" /\ q.options.s # <<>>
                  THEN CleanOptions(q.options.items)
             ELSE <<>>
  IN  IF Len(raw) < 2 THEN << <<"T", "r", "u", "e">>, <<"F", "a", "l", "s", "e">> >>
      ELSE raw

ResolveCorrectAnswer(q, options) ==
  LET ca == q.correctAnswer
      picked ==
        IF ca.t = "num" /\ ca.n >= 0 /\ ca.n < Len(options) THEN ca
        ELSE IF ca.t = "str" /\ ~NumberIsNaN(ca.s) THEN ParseInt(ca.s)
        ELSE IF q.correct_answer.t = "num" THEN q.correct_answer
        ELSE IF q.CorrectAnswer.t = "num" THEN q.CorrectAnswer
        ELSE Num(0)
  IN  Clamp(picked, Len(options) - 1)

Explanation(q) ==
  Trim(ToStr(IF Truthy(q.explanation) THEN q.explanation
             ELSE IF Truthy(q.Explanation) THEN q.Explanation ELSE StrV(<<>>)))

\* new this.questionModel({...}) of generateQuestions.  The schema casts
\* correctAnswer to Number; a NaN does not cast, which leaves the path unset.
QuestionDoc(q) ==
  LET options == ResolveOptions(q)
      ca == ResolveCorrectAnswer(q, options)
  IN  [question |-> QuestionText(q),
       options |-> options,
       correctAnswer |-> IF ca.t = "nan" THEN Undef ELSE ca,
       explanation |-> Explanation(q),
       order |-> 0]

\* questionDocs after the loop over questions.entries()
RECURSIVE Normalize(_)
Normalize(cands) ==
  IF cands = <<>> THEN <<>>
  ELSE LET q == Head(cands)
       IN  IF Skipped(q) \/ QuestionText(q) = <<>> THEN Normalize(Tail(cands))
           ELSE <<QuestionDoc(q)>> \o Normalize(Tail(cands))

(***************************************************************************)
(* One attempt of generateQuestions on a response of the endpoint            *)
(***************************************************************************)
\* the attempt throws: transport error, status >= 500 (validateStatus),
\* status other than 200, or a body that is not of an expected shape
AttemptFails(resp) ==
  \/ resp.net # "ok"
  \/ resp.status >= 500
  \/ resp.status # 200
  \/ /\ ~resp.questionsIsArray
     /\ \/ resp.error
        \/ ~resp.rootIsArray
        \/ resp.root = <<>>
        \/ \E i \in 1..Len(resp.root) :
             \/ ~resp.root[i].obj
             \/ ~Truthy(resp.root[i].question)
             \/ resp.root[i].options.t # "arr"

\* the value a successful attempt returns
AttemptResult(resp) ==
  LET questions == IF resp.questionsIsArray THEN resp.questions ELSE resp.root
  IN  IF questions = <<>> THEN <<>> ELSE Normalize(questions)

(***************************************************************************)
(* Segment loop: questionDocs of generateQuestionsForVideo                   *)
(***************************************************************************)
\* a faulty variant of LoopOptions: the options are not cut to the first four
LoopOptionsUnsliced(doc) == FilterNonEmpty([i \in 1..Len(doc.options) |-> Trim(doc.options[i])])

\* q.options.slice(0, 4).map(opt => String(opt || '').trim()).filter(Boolean)
LoopOptions(doc) == FilterNonEmpty([i \in 1..Min(4, Len(doc.options)) |-> Trim(doc.options[i])])

\* the document built for one returned question and one segment; order is
\* not passed to the constructor, so the schema default 0 applies
LoopDoc(doc, segmentId) ==
  LET options == LoopOptions(doc)
  IN  [segmentId |-> segmentId,
       question |-> Trim(doc.question),
       options |-> options,
       correctAnswer |->
         Max(0, Min(IF doc.correctAnswer.t = "num" THEN doc.correctAnswer.n ELSE 0,
                    Len(options) - 1)),
       explanation |-> Trim(doc.explanation),
       order |-> 0]

\* questions.map(...).filter(Boolean)
RECURSIVE LoopDocs(_, _)
LoopDocs(docs, segmentId) ==
  IF docs = <<>> THEN <<>>
  ELSE IF Len(LoopOptions(Head(docs))) < 2 THEN LoopDocs(Tail(docs), segmentId)
  ELSE <<LoopDoc(Head(docs), segmentId)>> \o LoopDocs(Tail(docs), segmentId)

(***************************************************************************)
(* Environment: what the remote endpoints may answer                         *)
(***************************************************************************)
\* a candidate object with the canonical field names only
Cand(question, options, correctAnswer) ==
  [obj |-> TRUE, question |-> question, Question |-> Undef,
   options |-> options, Options |-> NoOpts,
   correctAnswer |-> correctAnswer, correct_answer |-> Undef, CorrectAnswer |-> Undef,
   explanation |-> Undef, Explanation |-> Undef]

\* a non-object entry of the questions array (a string, a number, null)
NonObject == [Cand(Undef, NoOpts, Undef) EXCEPT !.obj = FALSE]

StrQ == <<"Q", "?">>

OptA == StrV(<<"a">>)

OptB == StrV(<<"b", " ">>)

CandValid == Cand(StrV(StrQ), ArrV(<<OptA, OptB, StrV(<<"c">>)>>), Num(1))

CandOneOption == Cand(StrV(StrQ), ArrV(<<OptA>>), Num(7))

CandNoOptions == Cand(StrV(StrQ), NoOpts, Num(0))

CandBlankQuestion == Cand(StrV(<<" ">>), ArrV(<<OptA, OptB>>), Num(0))

\* an options array of n distinct non-empty strings: "1", "2", ...
OptionsOfLength(n) == ArrV([i \in 1..n |-> StrV(NatStr(i))])

\* values of the fields of a candidate, canonical names and aliases
NzQuestions == {Undef, StrV(StrQ), StrV(<<" ">>)}

NzAliasQuestions == {Undef, StrV(StrQ)}

NzOptions ==
  { NoOpts, ArrV(<<>>), ArrV(<<OptA>>), ArrV(<<OptA, OptB>>),
    ArrV(<<OptA, StrV(<<" ">>), Num(0), Null>>),
    OptionsOfLength(MaxOptions),
    JsonStrV(<<"[", "\"", "a", "\"", ",", "\"", "b", "\"", "]">>, <<OptA, StrV(<<"b">>)>>) }

NzAliasOptions == {NoOpts, ArrV(<<OptA, OptB>>)}

NzAnswers ==
  { Undef, Null, Num(0 - 1), Num(0), Num(1), Num(MaxOptions - 1), Num(7),
    StrV(<<"7">>), StrV(<<"-", "1">>), StrV(<<>>), StrV(<<"x">>) }

NzAliasAnswers == {Undef, Num(1)}

\* the candidates given one at a time to the normalizer
NzCandidates ==
  { [Cand(q, o, a) EXCEPT !.Question = aq, !.Options = ao,
                          !.correct_answer = a1, !.CorrectAnswer = a2] :
      q \in NzQuestions, aq \in NzAliasQuestions, o \in NzOptions, ao \in NzAliasOptions,
      a \in NzAnswers, a1 \in NzAliasAnswers, a2 \in NzAliasAnswers }

\* the questions arrays of the responses in SpecNormalizer
NzCandidateLists ==
  {<<q>> : q \in NzCandidates}
    \cup {<<q1, q2>> : q1, q2 \in {CandValid, CandOneOption, CandBlankQuestion}}
    \cup {<<CandValid, NonObject, CandOneOption, CandValid>>}

Body(questionsIsArray, questions, error, rootIsArray, root) ==
  [net |-> "ok", status |-> 200, questionsIsArray |-> questionsIsArray,
   questions |-> questions, error |-> error, rootIsArray |-> rootIsArray, root |-> root]

\* responses of POST /generate-mcq
GenFailures ==
  { [Body(FALSE, <<>>, FALSE, FALSE, <<>>) EXCEPT !.net = "error"],
    [Body(FALSE, <<>>, FALSE, FALSE, <<>>) EXCEPT !.status = 500],
    [Body(FALSE, <<>>, FALSE, FALSE, <<>>) EXCEPT !.status = 404],
    Body(FALSE, <<>>, TRUE, FALSE, <<>>),
    Body(FALSE, <<>>, FALSE, FALSE, <<>>),
    Body(FALSE, <<>>, FALSE, TRUE, <<>>),
    Body(FALSE, <<>>, FALSE, TRUE, <<CandNoOptions>>) }

GenSuccesses ==
  { Body(TRUE, <<>>, FALSE, FALSE, <<>>),
    Body(TRUE, <<NonObject, CandNoOptions, CandBlankQuestion>>, FALSE, FALSE, <<>>),
    Body(TRUE, <<CandNoOptions, CandOneOption, CandValid>>, TRUE, FALSE, <<>>),
    Body(FALSE, <<>>, FALSE, TRUE, <<CandOneOption, CandValid>>) }

GenResponses == GenFailures \cup GenSuccesses

\* error.message of a failed POST /transcribe (or of fs.readFile)
TransportMessages == {"Network Error", "timeout of 300000ms exceeded"}

\* { text, duration } of a successful POST /transcribe
TranscriptionResults ==
  { [text |-> <<>>, duration |-> 200],
    [text |-> <<"a", " ", "b">>, duration |-> 0],
    [text |-> <<"a">>, duration |-> 200],
    [text |-> <<"a">>, duration |-> 301] }

(***************************************************************************)
(* State                                                                     *)
(***************************************************************************)
VARIABLES
  vStatus,      \* Video.status; "NONE" while no Video record exists
  vError,       \* Video.error (a message; <<>> when unset)
  vMeta,        \* Video.metadata: transcript and duration
  segments,     \* the TranscriptSegment collection, in insertion order
  questions,    \* the Question collection: per segment, its documents in insertion order
  tasks,        \* the activities: operation, position, locals
  opsStarted    \* operations launched so far

vars == <<vStatus, vError, vMeta, segments, questions, tasks, opsStarted>>

Tasks == {1, 2}

Idle ==
  [op |-> "none", pc |-> "idle", res |-> "none",
   attempt |-> 0, wait |-> 0, err |-> <<>>, text |-> <<>>, dur |-> 0,
   batch |-> <<>>, sel |-> <<>>, k |-> 0, seg |-> 0, raw |-> <<>>, docs |-> <<>>,
   log |-> <<>>, taExhausted |-> FALSE, inserted |-> FALSE, outcome |-> "none",
   ret |-> "none"]

Init ==
  /\ vStatus = "NONE"
  /\ vError = <<>>
  /\ vMeta = [hasTranscript |-> FALSE, transcript |-> <<>>, hasDuration |-> FALSE, duration |-> 0]
  /\ segments = <<>>
  /\ questions = <<>>
  /\ tasks = [t \in Tasks |-> Idle]
  /\ opsStarted = 0

(***************************************************************************)
(* Helpers shared by the actions                                             *)
(***************************************************************************)
\* a message is the concatenation of its fragments
MsgEmpty(m) == \A i \in 1..Len(m) : m[i] = ""

Free(t) == tasks[t].pc \in {"idle", "done"} /\ opsStarted < MaxOps

\* the activity that runs the upload; the others run events and controller calls
Uploader == 1

IsPipeline(t) == tasks[t].op \in {"upload", "event"}

\* a faulty variant of UpdateVideoStatus: a terminal status is not replaced
UpdateVideoStatusGuarded(status, error) ==
  IF vStatus \in {"COMPLETED", "FAILED"}
  THEN UNCHANGED <<vStatus, vError>>
  ELSE /\ vStatus' = status
       /\ vError' = IF MsgEmpty(error) THEN vError ELSE error

\* TranscriptionService.updateVideoStatus: status always, error only when truthy
UpdateVideoStatus(status, error) ==
  /\ vStatus' = status
  /\ vError' = IF MsgEmpty(error) THEN vError ELSE error

\* UploadsService.updateVideoStatus: { status, ...(error && { error }) }
UploadsUpdateVideoStatus(status, error) ==
  /\ vStatus' = status
  /\ vError' = IF MsgEmpty(error) THEN vError ELSE error

\* the record of task t once it has written `status`
Logged(rec, status) == [rec EXCEPT !.log = Append(@, status)]

\* the operation returns to its caller
Finished(rec, res) == [rec EXCEPT !.pc = "done", !.res = res]

\* an error leaves a phase: processVideo's catch takes it, the controller
\* entry points let it reach their caller
Thrown(rec, msg) ==
  IF rec.op \in {"upload", "event"}
  THEN [rec EXCEPT !.pc = "pv_failed", !.err = msg]
  ELSE [Finished(rec, "error") EXCEPT !.err = msg]

\* transcribeVideo's catch: throw new Error(`Transcription failed: ${errorMessage}`)
TranscribeVideoThrows(rec, msg) == Thrown(rec, <<"Transcription failed: ">> \o msg)

(***************************************************************************)
(* Entry points                                                              *)
(***************************************************************************)
\* a faulty variant of CreateVideo: startTranscriptionProcess is awaited, so
\* createVideo has not returned while the pipeline runs
CreateVideoAwaiting(t) ==
  /\ Free(t)
  /\ t = Uploader
  /\ vStatus = "NONE"
  /\ vStatus' = "UPLOADED"
  /\ tasks' = [tasks EXCEPT ![t] = [Idle EXCEPT !.op = "upload", !.pc = "pv_processing"]]
  /\ opsStarted' = opsStarted + 1
  /\ UNCHANGED <<vError, vMeta, segments, questions>>

\* UploadsService.createVideo: the record is saved with status UPLOADED and
\* startTranscriptionProcess is called without await; processVideo runs up to
\* its first await (the PROCESSING write is pending) and createVideo returns
\* the video (ret) in the same turn.
CreateVideo(t) ==
  /\ Free(t)
  /\ t = Uploader
  /\ vStatus = "NONE"
  /\ vStatus' = "UPLOADED"
  /\ tasks' = [tasks EXCEPT ![t] =
       [Idle EXCEPT !.op = "upload", !.pc = "pv_processing", !.ret = "video"]]
  /\ opsStarted' = opsStarted + 1
  /\ UNCHANGED <<vError, vMeta, segments, questions>>

\* the messages of createVideo's BadRequestExceptions
CreateVideoErrors ==
  { <<"Video file not found">>,
    <<"File size exceeds the maximum allowed size of ", "1024", "MB">> }

\* UploadsService.createVideo on a missing or oversized file: the exception is
\* thrown before anything is saved and before the pipeline is started
CreateVideoRejected(t) ==
  /\ Free(t)
  /\ t = Uploader
  /\ vStatus = "NONE"
  /\ \E msg \in CreateVideoErrors :
       tasks' = [tasks EXCEPT ![t] =
         [Finished([Idle EXCEPT !.op = "upload"], "error") EXCEPT !.err = msg, !.ret = "error"]]
  /\ opsStarted' = opsStarted + 1
  /\ UNCHANGED <<vStatus, vError, vMeta, segments, questions>>

\* onModuleInit: the 'video.uploaded' listener calls processVideo(video)
VideoUploadedEvent(t) ==
  /\ Free(t)
  /\ t # Uploader
  /\ vStatus # "NONE"
  /\ tasks' = [tasks EXCEPT ![t] = [Idle EXCEPT !.op = "event", !.pc = "pv_processing"]]
  /\ opsStarted' = opsStarted + 1
  /\ UNCHANGED <<vStatus, vError, vMeta, segments, questions>>

\* a faulty variant of StartTranscription: the result of findById is not checked
StartTranscriptionUnchecked(t) ==
  /\ Free(t)
  /\ t # Uploader
  /\ tasks' = [tasks EXCEPT ![t] = [Idle EXCEPT !.op = "startTranscription", !.pc = "tv_status"]]
  /\ opsStarted' = opsStarted + 1
  /\ UNCHANGED <<vStatus, vError, vMeta, segments, questions>>

\* TranscriptionController.transcribeVideo -> startTranscription: findById,
\* then transcribeVideo; an unknown id throws before anything is written
StartTranscription(t) ==
  /\ Free(t)
  /\ t # Uploader
  /\ tasks' = [tasks EXCEPT ![t] =
       IF vStatus = "NONE"
       THEN [Finished([Idle EXCEPT !.op = "startTranscription"], "error")
               EXCEPT !.err = <<"Video with ID ", "1", " not found">>]
       ELSE [Idle EXCEPT !.op = "startTranscription", !.pc = "tv_status"]]
  /\ opsStarted' = opsStarted + 1
  /\ UNCHANGED <<vStatus, vError, vMeta, segments, questions>>

\* TranscriptionController.segmentTranscript
SegmentTranscriptCall(t) ==
  /\ Free(t)
  /\ t # Uploader
  /\ tasks' = [tasks EXCEPT ![t] = [Idle EXCEPT !.op = "segmentTranscript", !.pc = "st_read"]]
  /\ opsStarted' = opsStarted + 1
  /\ UNCHANGED <<vStatus, vError, vMeta, segments, questions>>

\* TranscriptionController.generateQuestions
GenerateQuestionsCall(t) ==
  /\ Free(t)
  /\ t # Uploader
  /\ tasks' = [tasks EXCEPT ![t] = [Idle EXCEPT !.op = "generateQuestions", !.pc = "gq_prepass"]]
  /\ opsStarted' = opsStarted + 1
  /\ UNCHANGED <<vStatus, vError, vMeta, segments, questions>>

(***************************************************************************)
(* processVideo and startTranscriptionProcess                                *)
(***************************************************************************)
\* await this.updateVideoStatus(videoId, 'PROCESSING')
PvProcessing(t) ==
  /\ tasks[t].pc = "pv_processing"
  /\ UpdateVideoStatus("PROCESSING", <<>>)
  /\ tasks' = [tasks EXCEPT ![t] = [Logged(@, "PROCESSING") EXCEPT !.pc = "tv_status"]]
  /\ UNCHANGED <<vMeta, segments, questions, opsStarted>>

\* await this.updateVideoStatus(videoId, 'COMPLETED'); the upload service then
\* goes on to its own status write, the event listener is finished
PvCompleted(t) ==
  /\ tasks[t].pc = "pv_completed"
  /\ UpdateVideoStatus("COMPLETED", <<>>)
  /\ tasks' = [tasks EXCEPT ![t] =
       IF @.op = "upload" THEN [Logged(@, "COMPLETED") EXCEPT !.pc = "up_processing"]
       ELSE Finished(Logged(@, "COMPLETED"), "ok")]
  /\ UNCHANGED <<vMeta, segments, questions, opsStarted>>

\* a faulty variant of PvFailed: the status is written without the error text
PvFailedStatusOnly(t) ==
  /\ tasks[t].pc = "pv_failed"
  /\ UpdateVideoStatus("FAILED", <<>>)
  /\ tasks' = [tasks EXCEPT ![t] =
       [Logged(@, "FAILED") EXCEPT
          !.pc = IF tasks[t].op = "upload" THEN "up_failed" ELSE "ev_failed"]]
  /\ UNCHANGED <<vMeta, segments, questions, opsStarted>>

\* a faulty variant of PvFailed: the catch also rolls back what the earlier
\* phases stored
PvFailedRollsBack(t) ==
  /\ tasks[t].pc = "pv_failed"
  /\ UpdateVideoStatus("FAILED", tasks[t].err)
  /\ tasks' = [tasks EXCEPT ![t] =
       [Logged(@, "FAILED") EXCEPT
          !.pc = IF tasks[t].op = "upload" THEN "up_failed" ELSE "ev_failed"]]
  /\ vMeta' = [hasTranscript |-> FALSE, transcript |-> <<>>, hasDuration |-> FALSE, duration |-> 0]
  /\ segments' = <<>>
  /\ questions' = <<>>
  /\ UNCHANGED opsStarted

\* catch of processVideo: updateVideoStatus(videoId, 'FAILED', errorMessage),
\* then throw error
PvFailed(t) ==
  /\ tasks[t].pc = "pv_failed"
  /\ UpdateVideoStatus("FAILED", tasks[t].err)
  /\ tasks' = [tasks EXCEPT ![t] =
       [Logged(@, "FAILED") EXCEPT
          !.pc = IF tasks[t].op = "upload" THEN "up_failed" ELSE "ev_failed"]]
  /\ UNCHANGED <<vMeta, segments, questions, opsStarted>>

\* startTranscriptionProcess after processVideo returned:
\* await this.updateVideoStatus(video._id.toString(), VideoStatus.PROCESSING)
UpProcessing(t) ==
  /\ tasks[t].pc = "up_processing"
  /\ UploadsUpdateVideoStatus("PROCESSING", <<>>)
  /\ tasks' = [tasks EXCEPT ![t] = Finished(Logged(@, "PROCESSING"), "ok")]
  /\ UNCHANGED <<vMeta, segments, questions, opsStarted>>

\* catch of startTranscriptionProcess: updateVideoStatus(videoId, FAILED, errorMessage)
UpFailed(t) ==
  /\ tasks[t].pc = "up_failed"
  /\ UploadsUpdateVideoStatus("FAILED", tasks[t].err)
  /\ tasks' = [tasks EXCEPT ![t] = Finished(Logged(@, "FAILED"), "error")]
  /\ UNCHANGED <<vMeta, segments, questions, opsStarted>>

\* the listener's catch: handleError runs the cleanup
\* updateVideoStatus(video._id, 'FAILED', error.message) and rethrows
EvFailed(t) ==
  /\ tasks[t].pc = "ev_failed"
  /\ UpdateVideoStatus("FAILED", tasks[t].err)
  /\ tasks' = [tasks EXCEPT ![t] = Finished(Logged(@, "FAILED"), "error")]
  /\ UNCHANGED <<vMeta, segments, questions, opsStarted>>

(***************************************************************************)
(* transcribeVideo and transcribeAudio                                       *)
(***************************************************************************)
\* await this.updateVideoStatus(videoId, 'TRANSCRIBING')
TvStatus(t) ==
  /\ tasks[t].pc = "tv_status"
  /\ UpdateVideoStatus("TRANSCRIBING", <<>>)
  /\ tasks' = [tasks EXCEPT ![t] = [Logged(@, "TRANSCRIBING") EXCEPT !.pc = "tv_file"]]
  /\ UNCHANGED <<vMeta, segments, questions, opsStarted>>

\* if (!await this.fileExists(video.path)) throw ...; else transcribeAudio
\* starts its first attempt
TvFile(t) ==
  /\ tasks[t].pc = "tv_file"
  /\ \E exists \in BOOLEAN :
       tasks' = [tasks EXCEPT ![t] =
         IF exists THEN [@ EXCEPT !.pc = "ta_call", !.attempt = 1]
         ELSE TranscribeVideoThrows(@, <<"Video file not found at path: ", "p">>)]
  /\ UNCHANGED <<vStatus, vError, vMeta, segments, questions, opsStarted>>

\* a faulty variant of TranscribeAudioFailed: one attempt too many (attempt > MAX_RETRIES)
TranscribeAudioFailedLate(rec, msg) ==
  IF rec.attempt > MAX_RETRIES
  THEN TranscribeVideoThrows([rec EXCEPT !.taExhausted = TRUE],
                             <<"Transcription failed: ", msg>>)
  ELSE [rec EXCEPT !.pc = "ta_delay", !.wait = RETRY_DELAY * rec.attempt]

\* a faulty variant of TranscribeAudioFailed: the delay does not grow with the attempt
TranscribeAudioFailedFixedDelay(rec, msg) ==
  IF rec.attempt = MAX_RETRIES
  THEN TranscribeVideoThrows([rec EXCEPT !.taExhausted = TRUE],
                             <<"Transcription failed: ", msg>>)
  ELSE [rec EXCEPT !.pc = "ta_delay", !.wait = RETRY_DELAY]

\* the outcome of attempt `rec.attempt` of transcribeAudio that failed with
\* `msg`: the last attempt throws, an earlier one arms the timer of the delay
TranscribeAudioFailed(rec, msg) ==
  IF rec.attempt = MAX_RETRIES
  THEN TranscribeVideoThrows([rec EXCEPT !.taExhausted = TRUE],
                             <<"Transcription failed: ", msg>>)
  ELSE [rec EXCEPT !.pc = "ta_delay", !.wait = RETRY_DELAY * rec.attempt]

\* one attempt: readFile and POST /transcribe
TaCall(t) ==
  /\ tasks[t].pc = "ta_call"
  /\ \/ \E r \in TranscriptionResults :
          tasks' = [tasks EXCEPT ![t] =
            [@ EXCEPT !.pc = "tv_save", !.attempt = 0, !.text = r.text, !.dur = r.duration]]
     \/ \E msg \in TransportMessages :
          tasks' = [tasks EXCEPT ![t] = TranscribeAudioFailed(@, msg)]
  /\ UNCHANGED <<vStatus, vError, vMeta, segments, questions, opsStarted>>

\* a faulty variant of TaDelay: the attempt counter is not advanced, a failing
\* call is retried for ever
TaDelayRetriesForever(t) ==
  /\ tasks[t].pc = "ta_delay"
  /\ tasks' = [tasks EXCEPT ![t] = [@ EXCEPT !.pc = "ta_call", !.wait = 0]]
  /\ UNCHANGED <<vStatus, vError, vMeta, segments, questions, opsStarted>>

\* await new Promise(resolve => setTimeout(resolve, RETRY_DELAY * attempt)):
\* the timer fires and the next attempt starts
TaDelay(t) ==
  /\ tasks[t].pc = "ta_delay"
  /\ tasks' = [tasks EXCEPT ![t] = [@ EXCEPT !.pc = "ta_call", !.attempt = @ + 1, !.wait = 0]]
  /\ UNCHANGED <<vStatus, vError, vMeta, segments, questions, opsStarted>>

\* a faulty variant of TvSave: the write of transcript and duration is not
\* awaited, the next phase starts before they are stored
TvSaveNotAwaited(t) ==
  /\ tasks[t].pc = "tv_save"
  /\ tasks' = [tasks EXCEPT ![t] =
       IF IsPipeline(t) THEN [@ EXCEPT !.pc = "st_read", !.text = <<>>, !.dur = 0]
       ELSE Finished([@ EXCEPT !.text = <<>>, !.dur = 0], "ok")]
  /\ UNCHANGED <<vStatus, vError, vMeta, segments, questions, opsStarted>>

\* findByIdAndUpdate(videoId, { $set: { 'metadata.transcript', 'metadata.duration' } })
TvSave(t) ==
  /\ tasks[t].pc = "tv_save"
  /\ vMeta' = [hasTranscript |-> TRUE, transcript |-> tasks[t].text,
               hasDuration |-> TRUE, duration |-> tasks[t].dur]
  /\ tasks' = [tasks EXCEPT ![t] =
       IF IsPipeline(t) THEN [@ EXCEPT !.pc = "st_read", !.text = <<>>, !.dur = 0]
       ELSE Finished([@ EXCEPT !.text = <<>>, !.dur = 0], "ok")]
  /\ UNCHANGED <<vStatus, vError, segments, questions, opsStarted>>

(***************************************************************************)
(* segmentTranscript                                                         *)
(***************************************************************************)
\* const duration = video.metadata?.duration || 0
StoredDuration == IF vMeta.hasDuration THEN vMeta.duration ELSE 0

\* a faulty variant of SegmentTranscriptRead: the duration is not validated,
\* so a duration <= 0 runs the loop zero times and the call returns normally
SegmentTranscriptReadUnvalidated(rec) ==
  IF vStatus = "NONE"
    THEN Thrown(rec, <<"Video ", "1", " not found">>)
  ELSE IF ~vMeta.hasTranscript \/ vMeta.transcript = <<>>
    THEN Thrown(rec, <<"No transcript found for video ", "1">>)
  ELSE [rec EXCEPT !.pc = "st_insert",
                   !.batch = IF StoredDuration <= 0 THEN <<>>
                             ELSE ComputeSegments(vMeta.transcript, StoredDuration)]

\* a faulty variant of SegmentTranscriptRead: the descriptors depend on what is
\* already stored, the indexes continuing after the stored segments
SegmentTranscriptReadContinuing(rec) ==
  IF vStatus = "NONE"
    THEN Thrown(rec, <<"Video ", "1", " not found">>)
  ELSE IF ~vMeta.hasTranscript \/ vMeta.transcript = <<>>
    THEN Thrown(rec, <<"No transcript found for video ", "1">>)
  ELSE IF StoredDuration <= 0
    THEN Thrown(rec, <<"Invalid video duration: ">> \o NumStr(StoredDuration))
  ELSE [rec EXCEPT !.pc = "st_insert",
                   !.batch = [j \in 1..Len(ComputeSegments(vMeta.transcript, StoredDuration)) |->
                                [ComputeSegments(vMeta.transcript, StoredDuration)[j]
                                   EXCEPT !.index = @ + Len(segments)]]]

\* what segmentTranscript does with the record findById returned
SegmentTranscriptRead(rec) ==
  IF vStatus = "NONE"
    THEN Thrown(rec, <<"Video ", "1", " not found">>)
  ELSE IF ~vMeta.hasTranscript \/ vMeta.transcript = <<>>
    THEN Thrown(rec, <<"No transcript found for video ", "1">>)
  ELSE IF StoredDuration <= 0
    THEN Thrown(rec, <<"Invalid video duration: ">> \o NumStr(StoredDuration))
  ELSE [rec EXCEPT !.pc = "st_insert",
                   !.batch = ComputeSegments(vMeta.transcript, StoredDuration)]

StRead(t) ==
  /\ tasks[t].pc = "st_read"
  /\ tasks' = [tasks EXCEPT ![t] = SegmentTranscriptRead(@)]
  /\ UNCHANGED <<vStatus, vError, vMeta, segments, questions, opsStarted>>

\* await this.segmentModel.insertMany(segments)
StInsert(t) ==
  /\ tasks[t].pc = "st_insert"
  /\ segments' = segments \o tasks[t].batch
  /\ questions' = questions \o [j \in 1..Len(tasks[t].batch) |-> <<>>]
  /\ tasks' = [tasks EXCEPT ![t] =
       IF IsPipeline(t) THEN [@ EXCEPT !.pc = "gq_prepass", !.batch = <<>>, !.inserted = TRUE]
       ELSE Finished([@ EXCEPT !.batch = <<>>, !.inserted = TRUE], "ok")]
  /\ UNCHANGED <<vStatus, vError, vMeta, opsStarted>>

(***************************************************************************)
(* generateQuestionsForVideo and generateQuestions                           *)
(***************************************************************************)
\* updateMany({ status: 'PENDING', text: { $exists: true, $ne: '' } },
\*            { $set: { status: 'COMPLETED' } })
GqPrepass(t) ==
  /\ tasks[t].pc = "gq_prepass"
  /\ segments' = [i \in 1..Len(segments) |->
       IF segments[i].status = "PENDING" /\ segments[i].text # <<>>
       THEN [segments[i] EXCEPT !.status = "COMPLETED"] ELSE segments[i]]
  /\ tasks' = [tasks EXCEPT ![t] = [@ EXCEPT !.pc = "gq_find"]]
  /\ UNCHANGED <<vStatus, vError, vMeta, questions, opsStarted>>

\* ids in ascending index, ties in insertion order
RECURSIVE SortByIndex(_)
SortByIndex(ids) ==
  IF ids = {} THEN <<>>
  ELSE LET m == CHOOSE i \in ids : \A j \in ids :
                  \/ segments[i].index < segments[j].index
                  \/ segments[i].index = segments[j].index /\ i <= j
       IN  <<m>> \o SortByIndex(ids \ {m})

\* a faulty variant of SelectSegments: no filter on the status
SelectSegmentsAnyStatus ==
  SortByIndex({i \in 1..Len(segments) : segments[i].text # <<>>})

\* a faulty variant of SelectSegments: the selection is sorted by descending index
SelectSegmentsDescending ==
  LET asc == SortByIndex({i \in 1..Len(segments) :
                            segments[i].status \in {"COMPLETED", "PENDING"} /\ segments[i].text # <<>>})
  IN  [j \in 1..Len(asc) |-> asc[Len(asc) + 1 - j]]

\* find({ status: { $in: ['COMPLETED', 'PENDING'] }, text: { $ne: '' } }).sort('index')
SelectSegments ==
  SortByIndex({i \in 1..Len(segments) :
                 segments[i].status \in {"COMPLETED", "PENDING"} /\ segments[i].text # <<>>})

\* generateQuestionsForVideo returns to its caller
GqReturned(rec) ==
  IF rec.op \in {"upload", "event"}
  THEN [rec EXCEPT !.pc = "pv_completed", !.sel = <<>>, !.k = 0, !.docs = <<>>]
  ELSE Finished([rec EXCEPT !.sel = <<>>, !.k = 0, !.docs = <<>>], "ok")

GqFind(t) ==
  /\ tasks[t].pc = "gq_find"
  /\ tasks' = [tasks EXCEPT ![t] =
       IF SelectSegments = <<>> THEN GqReturned(@)
       ELSE [@ EXCEPT !.pc = "gq_mark", !.sel = SelectSegments, !.k = 1]]
  /\ UNCHANGED <<vStatus, vError, vMeta, segments, questions, opsStarted>>

CurrentSegment(t) == tasks[t].sel[tasks[t].k]

\* a faulty variant of GqMark: generateQuestions does not look at the text
\* before its first attempt
GqMarkNoTextCheck(t) ==
  /\ tasks[t].pc = "gq_mark"
  /\ segments' = [segments EXCEPT ![CurrentSegment(t)].status = "GENERATING_QUESTIONS"]
  /\ tasks' = [tasks EXCEPT ![t] =
       [@ EXCEPT !.pc = "gen_call", !.seg = CurrentSegment(t), !.attempt = 1, !.outcome = "none"]]
  /\ UNCHANGED <<vStatus, vError, vMeta, questions, opsStarted>>

\* findByIdAndUpdate(segment._id, { status: 'GENERATING_QUESTIONS' }), then the
\* call of generateQuestions, which returns [] at once for a blank text and
\* otherwise starts its first attempt
GqMark(t) ==
  LET seg == CurrentSegment(t)
      blank == Trim(segments[seg].text) = <<>>
  IN  /\ tasks[t].pc = "gq_mark"
      /\ segments' = [segments EXCEPT ![seg].status = "GENERATING_QUESTIONS"]
      /\ tasks' = [tasks EXCEPT ![t] =
           IF blank
           THEN [@ EXCEPT !.pc = "gq_done", !.seg = seg, !.docs = <<>>, !.outcome = "notext"]
           ELSE [@ EXCEPT !.pc = "gen_call", !.seg = seg, !.attempt = 1, !.outcome = "none"]]
      /\ UNCHANGED <<vStatus, vError, vMeta, questions, opsStarted>>

\* the catch of the retry loop after the last attempt
GenExhausted(rec) ==
  [rec EXCEPT !.pc = "gq_done", !.attempt = 0, !.docs = <<>>, !.outcome = "exhausted"]

\* a faulty variant of GenReturned: an empty result is raised as an error of the segment
GenReturnedEmptyThrows(rec, docs) ==
  IF docs = <<>>
  THEN [rec EXCEPT !.pc = "gq_fail", !.attempt = 0, !.docs = <<>>, !.outcome = "zero",
                   !.err = <<"No valid questions">>]
  ELSE [rec EXCEPT !.pc = "gq_insert", !.attempt = 0, !.docs = docs, !.outcome = "valid"]

\* a successful attempt returns `docs`; the caller inserts a non-empty result
GenReturned(rec, docs) ==
  [rec EXCEPT !.pc = IF docs = <<>> THEN "gq_done" ELSE "gq_insert",
              !.attempt = 0, !.docs = docs,
              !.outcome = IF docs = <<>> THEN "zero" ELSE "valid"]

\* a faulty variant of GenAttemptFailed: the delay of transcribeAudio is used
GenAttemptFailedShortDelay(rec) ==
  IF rec.attempt < MAX_RETRIES
  THEN [rec EXCEPT !.pc = "gen_delay", !.wait = RETRY_DELAY * rec.attempt]
  ELSE GenExhausted(rec)

\* the catch of the retry loop: an attempt before the last arms the timer of
\* the delay (generateQuestions' own RETRY_DELAY), the last one returns []
GenAttemptFailed(rec) ==
  IF rec.attempt < MAX_RETRIES
  THEN [rec EXCEPT !.pc = "gen_delay", !.wait = GEN_RETRY_DELAY * rec.attempt]
  ELSE GenExhausted(rec)

\* one attempt of generateQuestions: POST /generate-mcq and the handling of
\* the response
GenCall(t) ==
  /\ tasks[t].pc = "gen_call"
  /\ \E resp \in GenResponses :
       tasks' = [tasks EXCEPT ![t] =
         IF AttemptFails(resp)
         THEN GenAttemptFailed(@)
         ELSE GenReturned(@, AttemptResult(resp))]
  /\ UNCHANGED <<vStatus, vError, vMeta, segments, questions, opsStarted>>

\* one attempt of generateQuestions answered 200 { questions: raw }, the
\* candidates `raw` being those the activity was given
NormalizerCall(t) ==
  /\ tasks[t].pc = "gen_call"
  /\ tasks[t].raw # <<>>
  /\ tasks' = [tasks EXCEPT ![t] =
       GenReturned(@, AttemptResult(Body(TRUE, @.raw, FALSE, FALSE, <<>>)))]
  /\ UNCHANGED <<vStatus, vError, vMeta, segments, questions, opsStarted>>

\* await new Promise((resolve) => setTimeout(resolve, delay)): the timer fires
\* and the next attempt starts
GenDelay(t) ==
  /\ tasks[t].pc = "gen_delay"
  /\ tasks' = [tasks EXCEPT ![t] = [@ EXCEPT !.pc = "gen_call", !.attempt = @ + 1, !.wait = 0]]
  /\ UNCHANGED <<vStatus, vError, vMeta, segments, questions, opsStarted>>

\* the loop goes on to the next selected segment, or the function returns
\* (the closing countDocuments only reads)
NextSegment(rec) ==
  IF rec.k < Len(rec.sel) THEN [rec EXCEPT !.pc = "gq_mark", !.k = @ + 1, !.docs = <<>>]
  ELSE GqReturned(rec)

\* a faulty variant of SegmentThrown: no catch in the loop body, the error leaves the loop
SegmentThrownUncaught(rec, msg) == Thrown([rec EXCEPT !.docs = <<>>], msg)

\* the catch of the loop body took an error of segment processing
SegmentThrown(rec, msg) == [rec EXCEPT !.pc = "gq_fail", !.err = msg, !.docs = <<>>]

\* await this.questionModel.insertMany(questionDocs); the persistence layer
\* may reject the batch
GqInsert(t) ==
  /\ tasks[t].pc = "gq_insert"
  /\ \/ /\ questions' = [questions EXCEPT ![CurrentSegment(t)] =
                             @ \o LoopDocs(tasks[t].docs, CurrentSegment(t))]
        /\ tasks' = [tasks EXCEPT ![t] = [@ EXCEPT !.pc = "gq_done", !.docs = <<>>]]
     \/ /\ questions' = questions
        /\ tasks' = [tasks EXCEPT ![t] = SegmentThrown(@, <<"insertMany failed">>)]
  /\ UNCHANGED <<vStatus, vError, vMeta, segments, opsStarted>>

\* a faulty variant of GqDone: the update is not restricted to the segment's id
GqDoneCompletesAll(t) ==
  /\ tasks[t].pc = "gq_done"
  /\ segments' = [i \in 1..Len(segments) |-> [segments[i] EXCEPT !.status = "COMPLETED"]]
  /\ tasks' = [tasks EXCEPT ![t] = NextSegment(@)]
  /\ UNCHANGED <<vStatus, vError, vMeta, questions, opsStarted>>

\* a faulty variant of GqDone: the loop also marks the Video COMPLETED
GqDoneMarksVideo(t) ==
  /\ tasks[t].pc = "gq_done"
  /\ segments' = [segments EXCEPT ![CurrentSegment(t)].status = "COMPLETED"]
  /\ tasks' = [tasks EXCEPT ![t] = NextSegment(@)]
  /\ UpdateVideoStatus("COMPLETED", <<>>)
  /\ UNCHANGED <<vMeta, questions, opsStarted>>

\* findByIdAndUpdate(segment._id, { status: 'COMPLETED' })
GqDone(t) ==
  /\ tasks[t].pc = "gq_done"
  /\ segments' = [segments EXCEPT ![CurrentSegment(t)].status = "COMPLETED"]
  /\ tasks' = [tasks EXCEPT ![t] = NextSegment(@)]
  /\ UNCHANGED <<vStatus, vError, vMeta, questions, opsStarted>>

\* a faulty variant of GqFail: the catch marks the segment and rethrows
GqFailRethrows(t) ==
  /\ tasks[t].pc = "gq_fail"
  /\ segments' = [segments EXCEPT ![CurrentSegment(t)] =
       [@ EXCEPT !.status = "FAILED", !.error = tasks[t].err]]
  /\ tasks' = [tasks EXCEPT ![t] = Thrown([@ EXCEPT !.sel = <<>>, !.k = 0], @.err)]
  /\ UNCHANGED <<vStatus, vError, vMeta, questions, opsStarted>>

\* a faulty variant of GqFail: the catch stores the error but not the status
GqFailKeepsStatus(t) ==
  /\ tasks[t].pc = "gq_fail"
  /\ segments' = [segments EXCEPT ![CurrentSegment(t)] = [@ EXCEPT !.error = tasks[t].err]]
  /\ tasks' = [tasks EXCEPT ![t] = NextSegment([@ EXCEPT !.err = <<>>])]
  /\ UNCHANGED <<vStatus, vError, vMeta, questions, opsStarted>>

\* catch: findByIdAndUpdate(segment._id, { status: 'FAILED', error: errorMessage })
GqFail(t) ==
  /\ tasks[t].pc = "gq_fail"
  /\ segments' = [segments EXCEPT ![CurrentSegment(t)] =
       [@ EXCEPT !.status = "FAILED", !.error = tasks[t].err]]
  /\ tasks' = [tasks EXCEPT ![t] = NextSegment([@ EXCEPT !.err = <<>>])]
  /\ UNCHANGED <<vStatus, vError, vMeta, questions, opsStarted>>

(***************************************************************************)
(* Specification                                                             *)
(***************************************************************************)
\* the steps of an activity that is under way
PipelineStep(t) ==
  \/ PvProcessing(t)
  \/ PvCompleted(t)
  \/ PvFailed(t)
  \/ UpProcessing(t)
  \/ UpFailed(t)
  \/ TvStatus(t)
  \/ TvFile(t)
  \/ TaCall(t)
  \/ TaDelay(t)
  \/ TvSave(t)
  \/ StRead(t)
  \/ StInsert(t)
  \/ GqPrepass(t)
  \/ GqFind(t)
  \/ GqMark(t)
  \/ GenCall(t)
  \/ GenDelay(t)
  \/ GqInsert(t)
  \/ GqDone(t)
  \/ GqFail(t)

\* one upload and the controller calls, concurrently
Next ==
  \E t \in Tasks :
    \/ CreateVideo(t)
    \/ StartTranscription(t)
    \/ SegmentTranscriptCall(t)
    \/ GenerateQuestionsCall(t)
    \/ PipelineStep(t)

Spec == Init /\ [][Next]_vars

\* one upload on its own
NextUpload ==
  \/ CreateVideo(Uploader)
  \/ CreateVideoRejected(Uploader)
  \/ PipelineStep(Uploader)

SpecUpload == Init /\ [][NextUpload]_vars

\* one upload whose awaited operations all settle: every remote call and
\* every persistence operation returns or fails, every timer fires
SpecUploadLive == Init /\ [][NextUpload]_vars /\ WF_vars(PipelineStep(Uploader))

\* one upload and 'video.uploaded' events for the same video, concurrently
NextRetrigger ==
  \E t \in Tasks :
    \/ CreateVideo(t)
    \/ VideoUploadedEvent(t)
    \/ EvFailed(t)
    \/ PipelineStep(t)

SpecRetrigger == Init /\ [][NextRetrigger]_vars

\* a 'video.uploaded' event for the video delivered after the upload's own
\* run has finished
VideoUploadedAgain(t) ==
  /\ tasks[Uploader].op = "upload"
  /\ tasks[Uploader].pc = "done"
  /\ VideoUploadedEvent(t)

\* one upload, then runs of the listener one after the other
NextRerun ==
  \E t \in Tasks :
    \/ CreateVideo(t)
    \/ VideoUploadedAgain(t)
    \/ EvFailed(t)
    \/ PipelineStep(t)

SpecRerun == Init /\ [][NextRerun]_vars

\* the segmenter on its own: a transcribed video (any transcript of
\* SegmenterTranscripts, any duration of SegmenterDurations or none stored) and calls of the
\* controller's segmentTranscript
SegmenterTranscripts ==
  { <<"a">>,
    <<"a", " ", "b", " ", "c">>,
    <<" ", "a", " ", " ", "b">>,
    <<" ">>,
    <<"a", " ", "b", " ", "c", " ", "d", " ", "e", " ", "f", " ", "g">> }

\* the stored durations: negative, zero and every positive one up to MaxDuration
SegmenterDurations == (0 - 1)..MaxDuration

InitSegmenter ==
  /\ vStatus = "TRANSCRIBING"
  /\ vError = <<>>
  /\ \E tr \in SegmenterTranscripts, d \in SegmenterDurations, has \in BOOLEAN :
       /\ ~has => d = 0
       /\ vMeta = [hasTranscript |-> TRUE, transcript |-> tr,
                   hasDuration |-> has, duration |-> d]
  /\ segments = <<>>
  /\ questions = <<>>
  /\ tasks = [t \in Tasks |-> Idle]
  /\ opsStarted = 0

NextSegmenter ==
  \E t \in Tasks : SegmentTranscriptCall(t) \/ StRead(t) \/ StInsert(t)

SpecSegmenter == InitSegmenter /\ [][NextSegmenter]_vars

\* the normalizer and the loop's documents on their own: a segmented video
\* whose controller call of generateQuestionsForVideo is at the first attempt
\* for segment 0, the endpoint answering any list of NzCandidateLists
InitNormalizer ==
  /\ vStatus = "TRANSCRIBING"
  /\ vError = <<>>
  /\ vMeta = [hasTranscript |-> TRUE, transcript |-> <<"a">>, hasDuration |-> TRUE, duration |-> 200]
  /\ segments = [ComputeSegments(<<"a">>, 200) EXCEPT ![1].status = "GENERATING_QUESTIONS"]
  /\ questions = << <<>> >>
  /\ \E cands \in NzCandidateLists :
       tasks = [t \in Tasks |->
         IF t = Uploader THEN Idle
         ELSE [Idle EXCEPT !.op = "generateQuestions", !.pc = "gen_call", !.sel = <<1>>,
                           !.k = 1, !.seg = 1, !.attempt = 1, !.raw = cands]]
  /\ opsStarted = 1

NextNormalizer ==
  \E t \in Tasks : NormalizerCall(t) \/ GqInsert(t) \/ GqDone(t) \/ GqFail(t)

SpecNormalizer == InitNormalizer /\ [][NextNormalizer]_vars

\* the segment loop on its own: a segmented video, among them the one whose
\* only segment has a text of white space, and controller calls of
\* generateQuestionsForVideo
LoopTranscripts == { <<" ">>, <<"a">>, <<"a", " ", "b", " ", "c">> }

LoopDurations == {200, 301}

InitLoop ==
  /\ vStatus = "TRANSCRIBING"
  /\ vError = <<>>
  /\ \E tr \in LoopTranscripts, d \in LoopDurations :
       /\ vMeta = [hasTranscript |-> TRUE, transcript |-> tr, hasDuration |-> TRUE, duration |-> d]
       /\ segments = ComputeSegments(tr, d)
       /\ questions = [i \in 1..Len(ComputeSegments(tr, d)) |-> <<>>]
  /\ tasks = [t \in Tasks |-> Idle]
  /\ opsStarted = 0

NextLoop ==
  \E t \in Tasks :
    \/ GenerateQuestionsCall(t)
    \/ GqPrepass(t)
    \/ GqFind(t)
    \/ GqMark(t)
    \/ GenCall(t)
    \/ GenDelay(t)
    \/ GqInsert(t)
    \/ GqDone(t)
    \/ GqFail(t)

SpecLoop == InitLoop /\ [][NextLoop]_vars

(***************************************************************************)
(* Claims                                                                    *)
(***************************************************************************)
LoopPcs == {"gq_prepass", "gq_find", "gq_mark", "gen_call", "gen_delay",
            "gq_insert", "gq_done", "gq_fail"}

\* the order of the Video statuses along the pipeline
StatusRank(st) ==
  CASE st = "NONE" -> 0
    [] st = "UPLOADED" -> 1
    [] st = "PROCESSING" -> 2
    [] st = "TRANSCRIBING" -> 3
    [] st = "GENERATING_QUESTIONS" -> 4
    [] st = "COMPLETED" -> 5
    [] OTHER -> 6

\* C1: the persisted Video status never moves backwards except to FAILED, and
\* once it is COMPLETED no later write changes it.
C1_StatusNeverRegresses ==
  [][/\ vStatus # "FAILED" =>
          (vStatus' = "FAILED" \/ StatusRank(vStatus') >= StatusRank(vStatus))
     /\ vStatus = "COMPLETED" => vStatus' = "COMPLETED"]_vars

\* C2: in a pipeline run in which every phase succeeds, the statuses written
\* by the run are exactly PROCESSING, TRANSCRIBING, GENERATING_QUESTIONS,
\* COMPLETED, and the Video is GENERATING_QUESTIONS while the segment loop runs.
C2_PipelineStatusSequence ==
  \A t \in Tasks :
    tasks[t].op = "upload" =>
      /\ tasks[t].pc \in LoopPcs => vStatus = "GENERATING_QUESTIONS"
      /\ tasks[t].pc = "up_processing" =>
           tasks[t].log = <<"PROCESSING", "TRANSCRIBING", "GENERATING_QUESTIONS", "COMPLETED">>

\* C3: a run whose phase ended with an unrecovered error, started by the
\* pipeline or by startTranscription, has written FAILED as its last status
\* write (the write that carries its error message), and has started no later
\* phase (it inserted no segments after a failed transcription).
C3_ErrorEndsInFailed ==
  \A t \in Tasks :
    (tasks[t].res = "error" /\ tasks[t].log # <<>>) =>
      /\ tasks[t].log[Len(tasks[t].log)] = "FAILED"
      /\ ~tasks[t].inserted

TranscriptionRunWrites(t) ==
  /\ tasks[t].op \in {"startTranscription", "upload", "event"}
  /\ tasks[t].pc \in {"tv_status", "pv_processing", "pv_completed", "up_processing"}
  /\ tasks'[t].pc # tasks[t].pc
  /\ tasks'[t].log = Append(tasks[t].log, vStatus')

C5_CompletedAfterLoop ==
  \A t \in Tasks :
    (tasks[t].op \in {"upload", "event"} /\ tasks[t].inserted) =>
      /\ tasks[t].pc \in LoopPcs \cup {"pv_completed", "up_processing", "done"}
      /\ tasks[t].pc \in {"up_processing", "done"} =>
           /\ tasks[t].res # "error"
           /\ SubSeq(tasks[t].log, 1, 3) = <<"PROCESSING", "TRANSCRIBING", "COMPLETED">>

\* C5 witness: the run wrote COMPLETED although every segment ended FAILED
C5_Witness ==
  /\ Len(segments) = 2
  /\ \A i \in 1..Len(segments) : segments[i].status = "FAILED"
  /\ \E t \in Tasks :
       /\ tasks[t].op = "upload" /\ tasks[t].pc = "up_processing"
       /\ tasks[t].log[Len(tasks[t].log)] = "COMPLETED"
  /\ vStatus = "COMPLETED"

\* C6: an error raised while segment i is processed is taken by the loop's
\* catch; the catch marks segment i, and only it, FAILED with the message,
\* writes nothing to the Video, and the loop goes on with the next selected
\* segment or returns normally to its caller.
C6_SegmentErrorIsolated ==
  [][\A t \in Tasks :
       /\ (tasks[t].pc = "gq_insert" /\ tasks'[t] # tasks[t]) =>
            tasks'[t].pc \in {"gq_done", "gq_fail"}
       /\ (tasks[t].pc = "gq_fail" /\ tasks'[t] # tasks[t]) =>
            LET i == tasks[t].sel[tasks[t].k] IN
            /\ ~MsgEmpty(tasks[t].err)
            /\ segments'[i].status = "FAILED"
            /\ segments'[i].error = tasks[t].err
            /\ \A j \in 1..Len(segments) : j # i => segments'[j] = segments[j]
            /\ vStatus' = vStatus /\ vError' = vError
            /\ tasks'[t].res # "error"
            /\ IF tasks[t].k < Len(tasks[t].sel)
               THEN /\ tasks'[t].pc = "gq_mark"
                    /\ tasks'[t].sel = tasks[t].sel
                    /\ tasks'[t].k = tasks[t].k + 1
               ELSE tasks'[t].pc \in {"pv_completed", "done"}]_vars

\* C6 witness: segment 0 is FAILED with its message, the later segment was
\* processed and the Video was not failed
C6_Witness ==
  /\ Len(segments) = 2
  /\ segments[1].status = "FAILED" /\ segments[1].error = <<"insertMany failed">>
  /\ segments[2].status = "COMPLETED" /\ questions[2] # <<>>
  /\ vStatus = "COMPLETED" /\ MsgEmpty(vError)

\* C7: when all attempts of the generation call for a segment fail, the
\* segment is marked FAILED with a non-empty error, never COMPLETED.
C7_ExhaustedMarksFailed ==
  \A t \in Tasks :
    (tasks[t].outcome = "exhausted" /\ tasks[t].pc # "gq_done") =>
      /\ segments[tasks[t].seg].status = "FAILED"
      /\ ~MsgEmpty(segments[tasks[t].seg].error)

\* C8: when the transcription call fails MAX_RETRIES times in an upload run,
\* transcribeAudio throws after the third attempt, the run performs no
\* segmentation and no generation, its last status write is FAILED, and when
\* the upload is the only operation launched the Video ends FAILED with the
\* error text.
C8_TranscriptionExhausted ==
  \A t \in Tasks :
    (tasks[t].op = "upload" /\ tasks[t].taExhausted) =>
      /\ tasks[t].attempt = MAX_RETRIES
      /\ tasks[t].pc \in {"pv_failed", "up_failed", "done"}
      /\ ~tasks[t].inserted /\ tasks[t].outcome = "none" /\ tasks[t].seg = 0
      /\ ~MsgEmpty(tasks[t].err)
      /\ tasks[t].pc # "pv_failed" => tasks[t].log[Len(tasks[t].log)] = "FAILED"
      /\ tasks[t].pc = "done" => tasks[t].res = "error"
      /\ (tasks[t].pc # "pv_failed" /\ opsStarted = 1) =>
           (vStatus = "FAILED" /\ vError = tasks[t].err)

\* C8 witness: three failed attempts, the Video is FAILED with the message
C8_Witness ==
  /\ vStatus = "FAILED"
  /\ vError = <<"Transcription failed: ", "Transcription failed: ", "Network Error">>
  /\ segments = <<>>
  /\ \E t \in Tasks :
       tasks[t].op = "upload" /\ tasks[t].pc = "done" /\ tasks[t].taExhausted

\* C9: a segment whose generation call succeeds with zero valid candidates is
\* marked COMPLETED by the step that ends its processing; no Question is
\* inserted for it and no error is recorded on it.
C9_ZeroCandidatesCompletes ==
  /\ [](\A t \in Tasks :
          tasks[t].outcome = "zero" =>
            tasks[t].pc \notin {"gen_call", "gen_delay", "gq_insert", "gq_fail"})
  /\ [][\A t \in Tasks :
          (tasks[t].pc = "gq_done" /\ tasks[t].outcome = "zero" /\ tasks'[t] # tasks[t]) =>
            /\ segments'[tasks[t].seg].status = "COMPLETED"
            /\ segments'[tasks[t].seg].error = segments[tasks[t].seg].error
            /\ questions' = questions]_vars

\* C9 witness: after a generation call with zero valid candidates the segment
\* is COMPLETED, has no Question and no error
C9_Witness ==
  \E t \in Tasks :
    /\ tasks[t].outcome = "zero" /\ tasks[t].pc \in {"gq_mark", "pv_completed"}
    /\ segments[tasks[t].seg].status = "COMPLETED"
    /\ segments[tasks[t].seg].error = <<>>
    /\ questions[tasks[t].seg] = <<>>

\* C10: for every duration > 0, segmentTranscript builds and stores exactly
\* ceil(duration/300) segments, segment i being [i*300, min((i+1)*300, duration));
\* duration 905 gives [0,300), [300,600), [600,900), [900,905).
C10_SegmentsCoverDuration ==
  LET SegmentsCover(segs, duration) ==
        LET n == Len(segs) IN
        /\ n >= 1
        /\ (n - 1) * 300 < duration /\ duration <= n * 300
        /\ segs[1].startTime = 0
        /\ segs[n].endTime = duration
        /\ \A i \in 1..n :
             /\ segs[i].index = i - 1
             /\ segs[i].startTime = (i - 1) * 300
             /\ segs[i].endTime = (IF i * 300 < duration THEN i * 300 ELSE duration)
             /\ segs[i].startTime < segs[i].endTime
             /\ i > 1 => segs[i].startTime = segs[i - 1].endTime
  IN
  /\ \A t \in Tasks :
       tasks[t].pc = "st_insert" =>
         /\ SegmentsCover(tasks[t].batch, vMeta.duration)
         /\ vMeta.duration = 905 =>
              [i \in 1..Len(tasks[t].batch) |->
                 <<tasks[t].batch[i].startTime, tasks[t].batch[i].endTime>>]
                = << <<0, 300>>, <<300, 600>>, <<600, 900>>, <<900, 905>> >>
  /\ segments # <<>> =>
       \E n \in 1..Len(segments) :
         /\ SegmentsCover(SubSeq(segments, 1, n), vMeta.duration)
         /\ Len(segments) % n = 0

\* C10 witness: the four segments of a 905 second video are stored
C10_Witness ==
  /\ vMeta.duration = 905
  /\ Len(segments) = 4
  /\ segments[4].startTime = 900 /\ segments[4].endTime = 905
  /\ \E t \in Tasks : tasks[t].op = "segmentTranscript" /\ tasks[t].pc = "done"

\* C11: no two persisted segments of the video share an index, and the
\* persisted segments are contiguous, non-overlapping and span [0, duration).
C11_SegmentsUniqueAndContiguous ==
  /\ \A i, j \in 1..Len(segments) :
       i # j => segments[i].index # segments[j].index
  /\ segments # <<>> =>
       /\ segments[1].startTime = 0
       /\ segments[Len(segments)].endTime = vMeta.duration
       /\ \A i \in 2..Len(segments) : segments[i].startTime = segments[i - 1].endTime

\* C12: every Question persisted by the segment loop has between 2 and 4
\* options and a correctAnswer that is an index of its options.
C12_PersistedQuestionBounds ==
  \A s \in 1..Len(questions) :
    \A k \in 1..Len(questions[s]) :
      /\ Len(questions[s][k].options) >= 2
      /\ Len(questions[s][k].options) <= 4
      /\ questions[s][k].correctAnswer >= 0
      /\ questions[s][k].correctAnswer < Len(questions[s][k].options)

\* C12 witness: a candidate with more than 4 options and an answer beyond
\* them is persisted with 4 options and the last of them as the answer
C12_Witness ==
  \E t \in Tasks :
    /\ Len(tasks[t].raw) = 1
    /\ tasks[t].raw[1].options.t = "arr"
    /\ Len(tasks[t].raw[1].options.items) > 4
    /\ tasks[t].raw[1].correctAnswer = StrV(<<"7">>)
    /\ Len(questions[1]) = 1
    /\ Len(questions[1][1].options) = 4
    /\ questions[1][1].correctAnswer = 3

\* C13: the normalizer clamps a numeric correctAnswer into [0, len(options)-1]
\* after option repair (above the range gives len(options)-1, below 0 gives
\* 0); the candidate {question, options: [one option], correctAnswer: 7} gives
\* options ["True", "False"] and correctAnswer 1, and "7" gives what 7 gives.
C13_AnswerClamped ==
  \A t \in Tasks :
    (Len(tasks[t].raw) = 1 /\ tasks[t].pc = "gq_insert" /\ Len(tasks[t].docs) = 1) =>
      LET q == tasks[t].raw[1]
          d == tasks[t].docs[1]
          hi == Len(d.options) - 1
          canonical == q.correct_answer.t = "undef" /\ q.CorrectAnswer.t = "undef"
      IN  /\ (canonical /\ q.correctAnswer.t = "num") =>
               d.correctAnswer = Num(Max(0, Min(q.correctAnswer.n, hi)))
          /\ q.correctAnswer = StrV(<<"7">>) => d.correctAnswer = Num(Min(7, hi))
          /\ q = CandOneOption =>
               /\ d.options = << <<"T", "r", "u", "e">>, <<"F", "a", "l", "s", "e">> >>
               /\ d.correctAnswer = Num(1)

\* C14: a candidate whose question text is only under Question, whose options
\* are only under Options or a JSON-encoded string in options, or whose answer
\* is only under correct_answer or CorrectAnswer, is normalized and emitted
\* with those values rather than discarded.
C14_AliasesResolved ==
  \A t \in Tasks :
    (Len(tasks[t].raw) = 1 /\ tasks[t].pc # "gen_call") =>
      LET q == tasks[t].raw[1]
          text == Trim(ToStr(IF Truthy(q.question) THEN q.question ELSE q.Question))
          hasText == (Truthy(q.question) \/ Truthy(q.Question)) /\ text # <<>>
          hasOptions == q.options.t \in {"arr", "str"} \/ q.Options.t = "arr"
          hasAnswer == \/ q.correctAnswer.t # "undef"
                       \/ q.correct_answer.t = "num"
                       \/ q.CorrectAnswer.t = "num"
          usesAlias == \/ ~Truthy(q.question)
                       \/ q.options.t # "arr"
                       \/ q.correctAnswer.t = "undef"
      IN  (q.obj /\ usesAlias /\ hasText /\ hasOptions /\ hasAnswer) =>
            /\ tasks[t].outcome = "valid"
            /\ tasks[t].pc = "gq_insert" =>
                 (Len(tasks[t].docs) = 1 /\ tasks[t].docs[1].question = text)

\* C15: the k-th Question persisted for a segment, counting from 0, is stored
\* with order = k, so the orders of a segment's Questions are 0..m-1.
C15_OrderIsPosition ==
  \A s \in 1..Len(questions) :
    \A k \in 1..Len(questions[s]) : questions[s][k].order = k - 1

\* C16: once Questions have been persisted for a segment, no later operation
\* adds, removes or changes Questions of that segment.
C16_QuestionsCreatedOnce ==
  [][\A s \in 1..Len(questions) :
       questions[s] # <<>> => questions'[s] = questions[s]]_vars

\* C17: transcribeAudio issues the transcription call at most 3 times per
\* invocation, returns on the first successful attempt without a further call,
\* waits n*2 seconds after the n-th failed attempt for n = 1, 2 before
\* retrying, and throws at once, without waiting, after the third failure.
C17_TranscribeAudioRetries ==
  /\ [](\A t \in Tasks :
          /\ tasks[t].pc = "ta_call" => (tasks[t].attempt \in 1..3 /\ tasks[t].wait = 0)
          /\ tasks[t].pc = "ta_delay" =>
               (tasks[t].attempt \in {1, 2} /\ tasks[t].wait = tasks[t].attempt * 2000))
  /\ [][\A t \in Tasks :
          /\ (tasks[t].pc = "ta_call" /\ tasks'[t] # tasks[t]) =>
               \/ tasks'[t].pc = "tv_save" /\ tasks'[t].wait = 0
               \/ /\ tasks[t].attempt < 3
                  /\ tasks'[t].pc = "ta_delay"
                  /\ tasks'[t].attempt = tasks[t].attempt
               \/ /\ tasks[t].attempt = 3
                  /\ tasks'[t].pc \in {"pv_failed", "done"}
                  /\ tasks'[t].wait = 0
                  /\ ~MsgEmpty(tasks'[t].err)
          /\ (tasks[t].pc = "ta_delay" /\ tasks'[t] # tasks[t]) =>
               (tasks'[t].pc = "ta_call" /\ tasks'[t].attempt = tasks[t].attempt + 1)
          /\ (tasks[t].pc = "tv_save" /\ tasks'[t] # tasks[t]) =>
               tasks'[t].pc \notin {"ta_call", "ta_delay"}]_vars

\* C17 witness: the second attempt has failed and the 4 second delay is pending
C17_Witness ==
  \E t \in Tasks :
    tasks[t].pc = "ta_delay" /\ tasks[t].attempt = 2 /\ tasks[t].wait = 4000

\* C18: generateQuestions issues the generation call at most 3 times per
\* segment, stops at the first successful attempt, waits n*5 seconds after the
\* n-th failed attempt for n = 1, 2, and issues no call and no wait after a
\* success.
C18_GenerateQuestionsRetries ==
  /\ [](\A t \in Tasks :
          /\ tasks[t].pc = "gen_call" => (tasks[t].attempt \in 1..3 /\ tasks[t].wait = 0)
          /\ tasks[t].pc = "gen_delay" =>
               (tasks[t].attempt \in {1, 2} /\ tasks[t].wait = tasks[t].attempt * 5000)
          /\ tasks[t].outcome \in {"zero", "valid"} =>
               (tasks[t].pc \notin {"gen_call", "gen_delay"} /\ tasks[t].wait = 0))
  /\ [][\A t \in Tasks :
          /\ (tasks[t].pc = "gen_call" /\ tasks'[t] # tasks[t]) =>
               \/ /\ tasks'[t].outcome \in {"zero", "valid"}
                  /\ tasks'[t].pc \in {"gq_insert", "gq_done"}
               \/ /\ tasks[t].attempt < 3
                  /\ tasks'[t].pc = "gen_delay"
                  /\ tasks'[t].attempt = tasks[t].attempt
               \/ /\ tasks[t].attempt = 3
                  /\ tasks'[t].outcome = "exhausted"
                  /\ tasks'[t].pc \notin {"gen_call", "gen_delay"}
                  /\ tasks'[t].wait = 0
          /\ (tasks[t].pc = "gen_delay" /\ tasks'[t] # tasks[t]) =>
               (tasks'[t].pc = "gen_call" /\ tasks'[t].attempt = tasks[t].attempt + 1)]_vars

\* C18 witness: the second attempt has failed and the 10 second delay is pending
C18_Witness ==
  \E t \in Tasks :
    tasks[t].pc = "gen_delay" /\ tasks[t].attempt = 2 /\ tasks[t].wait = 10000

\* C19: a response of the generation endpoint with a status other than
\* success, or whose body has neither a questions array nor a valid root array
\* of questions (a body with an error field included), is a failed attempt
\* that is retried while attempts remain, and is never accepted as a
\* successful empty result.
C19_FailedAttemptNotEmptySuccess ==
  /\ [](\A resp \in GenResponses :
          LET validRoot == /\ resp.rootIsArray
                           /\ resp.root # <<>>
                           /\ \A i \in 1..Len(resp.root) :
                                /\ resp.root[i].obj
                                /\ Truthy(resp.root[i].question)
                                /\ resp.root[i].options.t = "arr"
          IN  (resp.status # 200 \/ (~resp.questionsIsArray /\ (resp.error \/ ~validRoot)))
                => AttemptFails(resp))
  /\ [][\A t \in Tasks :
          (/\ tasks[t].pc = "gen_call"
           /\ tasks'[t] # tasks[t]
           /\ tasks'[t].outcome \notin {"zero", "valid"}) =>
              /\ tasks[t].attempt < 3 => tasks'[t].pc = "gen_delay"
              /\ ~(tasks'[t].pc = "gq_done" /\ tasks'[t].docs = <<>>)]_vars

\* C20: startTranscription for an identifier with no Video record fails with
\* a not-found error, writes no status, issues no remote call and changes
\* nothing else.
C20_UnknownVideoNotFound ==
  /\ [][\A t \in Tasks :
          (/\ vStatus = "NONE"
           /\ tasks'[t] # tasks[t]
           /\ tasks'[t].op = "startTranscription"
           /\ tasks[t].pc \in {"idle", "done"}) =>
              /\ tasks'[t].pc = "done"
              /\ tasks'[t].res = "error"
              /\ tasks'[t].err = <<"Video with ID ", "1", " not found">>
              /\ tasks'[t].log = <<>>
              /\ tasks'[t].attempt = 0
              /\ UNCHANGED <<vStatus, vError, vMeta, segments, questions>>]_vars
  /\ [](vStatus = "NONE" =>
          /\ vError = <<>> /\ segments = <<>> /\ questions = <<>>
          /\ ~vMeta.hasTranscript /\ ~vMeta.hasDuration
          /\ \A t \in Tasks :
               tasks[t].op = "startTranscription" =>
                 (tasks[t].pc = "done" /\ tasks[t].res = "error" /\ tasks[t].log = <<>>))

\* C20 witness: the call for an unknown video has failed and no Video exists
C20_Witness ==
  /\ vStatus = "NONE"
  /\ \E t \in Tasks :
       /\ tasks[t].op = "startTranscription"
       /\ tasks[t].pc = "done"
       /\ tasks[t].res = "error"
       /\ tasks[t].err = <<"Video with ID ", "1", " not found">>

\* C21: segmentTranscript on a video whose stored duration is zero, negative
\* or missing fails with an error before computing anything and persists no
\* segment; and a segmentTranscript call persists either the full batch of
\* ceil(duration/300) segments or none.
C21_InvalidDurationFailsAllOrNothing ==
  /\ [](StoredDuration <= 0 =>
          /\ segments = <<>>
          /\ \A t \in Tasks :
               /\ tasks[t].pc # "st_insert"
               /\ tasks[t].batch = <<>>
               /\ tasks[t].op = "segmentTranscript" /\ tasks[t].pc = "done" =>
                    /\ tasks[t].res = "error"
                    /\ tasks[t].err = <<"Invalid video duration: ">> \o NumStr(StoredDuration)
                    /\ ~tasks[t].inserted)
  /\ [][\/ segments' = segments
        \/ /\ StoredDuration > 0
           /\ Len(segments') = Len(segments) + CeilDiv(StoredDuration, SEGMENT_DURATION)
           /\ SubSeq(segments', 1, Len(segments)) = segments]_vars

\* C21 witness: a call on a video with a negative stored duration has failed
\* and one on a video without a stored duration has failed, nothing persisted
C21_Witness ==
  /\ StoredDuration <= 0
  /\ vMeta.duration < 0 \/ ~vMeta.hasDuration
  /\ segments = <<>>
  /\ \E t \in Tasks :
       /\ tasks[t].op = "segmentTranscript" /\ tasks[t].pc = "done"
       /\ tasks[t].res = "error"
       /\ tasks[t].err[1] = <<"Invalid video duration: ">>[1]

\* C22: every segment persisted by segmentTranscript has a non-empty text;
\* when the word range of segment i is empty its text is the placeholder
\* "Segment {i+1} of {segmentCount}", for every transcript and duration,
\* transcripts with fewer words than segments included.
C22_SegmentTextNonEmpty ==
  LET segmentCount == CeilDiv(StoredDuration, SEGMENT_DURATION)
      wordCount == Len(SplitWs(vMeta.transcript))
      wordsPerSegment == CeilDiv(wordCount, segmentCount)
      RangeEmpty(i) == i * wordsPerSegment >= Min((i + 1) * wordsPerSegment, wordCount)
      Stored(seg) ==
        /\ seg.text # <<>>
        /\ RangeEmpty(seg.index) =>
             seg.text = <<"S", "e", "g", "m", "e", "n", "t", " ">> \o NatStr(seg.index + 1)
                          \o <<" ", "o", "f", " ">> \o NatStr(segmentCount)
  IN
  /\ \A i \in 1..Len(segments) : Stored(segments[i])
  /\ \A t \in Tasks : \A i \in 1..Len(tasks[t].batch) : Stored(tasks[t].batch[i])

\* C22 witness: a one-word transcript of a 905 second video is stored as four
\* segments, the last three with the placeholder text
C22_Witness ==
  /\ vMeta.transcript = <<"a">>
  /\ vMeta.duration = 905
  /\ Len(segments) = 4
  /\ segments[1].text = <<"a">>
  /\ segments[2].text = <<"S", "e", "g", "m", "e", "n", "t", " ", "2", " ", "o", "f", " ", "4">>
  /\ segments[4].text = <<"S", "e", "g", "m", "e", "n", "t", " ", "4", " ", "o", "f", " ", "4">>

C24_TranscriptWhenCompleted ==
  vStatus \in {"GENERATING_QUESTIONS", "COMPLETED"} =>
    vMeta.hasTranscript /\ vMeta.transcript # <<>>

\* C25: metadata.transcript and metadata.duration of the video are each written
\* at most once over any sequence of operations; a later startTranscription or
\* pipeline trigger does not overwrite a transcript that is already set.
C25_TranscriptWrittenOnce ==
  [][/\ vMeta.hasTranscript => (vMeta'.hasTranscript /\ vMeta'.transcript = vMeta.transcript)
     /\ vMeta.hasDuration => (vMeta'.hasDuration /\ vMeta'.duration = vMeta.duration)
     /\ \A t \in Tasks :
          (vMeta.hasTranscript /\ tasks[t].pc = "tv_save" /\ tasks'[t].pc # "tv_save") =>
            vMeta' = vMeta]_vars

\* C26: createVideo does not wait for the pipeline: it has returned the video
\* as soon as the record is saved with status UPLOADED and the pipeline is
\* started, so it has returned while the pipeline is in PROCESSING or
\* TRANSCRIBING; and a pipeline failure never makes createVideo fail.
C26_CreateVideoReturnsAtOnce ==
  /\ [](vStatus # "NONE" => tasks[Uploader].op = "upload" /\ tasks[Uploader].ret = "video")
  /\ []((\/ tasks[Uploader].pc \in {"pv_failed", "up_failed"}
         \/ \E i \in 1..Len(tasks[Uploader].log) : tasks[Uploader].log[i] = "FAILED")
          => tasks[Uploader].ret = "video")
  /\ [](tasks[Uploader].ret = "error" =>
          vStatus = "NONE" /\ tasks[Uploader].log = <<>> /\ tasks[Uploader].pc = "done")
  /\ [][tasks[Uploader].ret = "video" => tasks'[Uploader].ret = "video"]_vars

\* C26 witness: createVideo has returned the video and the pipeline, status
\* TRANSCRIBING, is waiting for the transcription service
C26_Witness ==
  /\ tasks[Uploader].ret = "video"
  /\ tasks[Uploader].op = "upload"
  /\ tasks[Uploader].pc = "ta_call"
  /\ vStatus = "TRANSCRIBING"

\* C27: with two activities writing the same video concurrently, status writes
\* interleave with last-write-wins: every status write of an activity replaces
\* the persisted status, COMPLETED and FAILED included, so that an execution is
\* reachable in which one run writes COMPLETED or FAILED, a write of the other
\* run replaces it, and after both have finished the status is non-terminal.
C27_LastWriteWins ==
  [][\A t \in Tasks :
       (tasks'[t].op = tasks[t].op /\ Len(tasks'[t].log) = Len(tasks[t].log) + 1) =>
         vStatus' = tasks'[t].log[Len(tasks'[t].log)]]_vars

\* C27 witness: the upload-triggered run ended by writing FAILED, the manual
\* startTranscription then wrote TRANSCRIBING, and both have finished
C27_Witness ==
  /\ \A t \in Tasks : tasks[t].pc = "done"
  /\ tasks[Uploader].op = "upload"
  /\ tasks[Uploader].log # <<>>
  /\ tasks[Uploader].log[Len(tasks[Uploader].log)] = "FAILED"
  /\ \E t \in Tasks : tasks[t].op = "startTranscription" /\ tasks[t].res = "ok"
  /\ vStatus = "TRANSCRIBING"

\* C28: within one pipeline run the phases are strictly sequential: the
\* segment batch is inserted only after the transcript and duration have been
\* stored, the first generation call is issued only after the segment batch
\* has been inserted, COMPLETED is written only after the last segment has
\* reached COMPLETED or FAILED, and no two remote calls of the run are in
\* flight at the same time (the transcription call is over before
\* segmentation begins, a generation call only starts after it).
C28_PhasesSequential ==
  /\ [](tasks[Uploader].pc \in {"pv_processing", "tv_status", "tv_file", "ta_call", "ta_delay", "tv_save"} =>
          /\ segments = <<>>
          /\ ~tasks[Uploader].inserted
          /\ ~vMeta.hasTranscript)
  /\ [](tasks[Uploader].pc \in {"st_read", "st_insert"} \cup LoopPcs \cup {"pv_completed"} =>
          vMeta.hasTranscript /\ vMeta.hasDuration)
  /\ [](tasks[Uploader].pc \in {"st_read", "st_insert"} =>
          /\ segments = <<>>
          /\ questions = <<>>)
  /\ [](tasks[Uploader].pc \in LoopPcs \cup {"pv_completed"} =>
          /\ tasks[Uploader].inserted
          /\ segments # <<>>)
  /\ []((tasks[Uploader].pc = "pv_completed"
           \/ \E i \in 1..Len(tasks[Uploader].log) : tasks[Uploader].log[i] = "COMPLETED") =>
          \A i \in 1..Len(segments) : segments[i].status \in {"COMPLETED", "FAILED"})
  /\ [][Len(segments') > Len(segments) => vMeta.hasTranscript /\ vMeta.hasDuration]_vars

\* C28 witness: the run stored the transcript, inserted two segments, took
\* both through the loop and wrote COMPLETED
C28_Witness ==
  /\ tasks[Uploader].op = "upload"
  /\ tasks[Uploader].log = <<"PROCESSING", "TRANSCRIBING", "COMPLETED">>
  /\ vMeta.hasTranscript /\ vMeta.duration = 301
  /\ Len(segments) = 2
  /\ \A i \in 1..2 : segments[i].status \in {"COMPLETED", "FAILED"}

\* C29: for each segment the loop follows the order: status set to
\* GENERATING_QUESTIONS, then generation call and normalization, then
\* Questions persisted, then status set to COMPLETED; so a segment is never
\* observed with status COMPLETED before the generation call for it has
\* returned and its Questions (if any) have been persisted.
C29_SegmentOrder ==
  /\ [](\A t \in Tasks :
          tasks[t].pc \in {"gen_call", "gen_delay", "gq_insert", "gq_done"} =>
            segments[tasks[t].seg].status = "GENERATING_QUESTIONS")
  /\ [][\A i \in 1..Len(segments) :
          (segments[i].status # "COMPLETED" /\ segments'[i].status = "COMPLETED") =>
            \E t \in Tasks :
              /\ tasks[t].pc = "gq_done"
              /\ tasks[t].seg = i
              /\ tasks'[t].pc # "gq_done" \/ tasks'[t].seg # i]_vars

\* C30: the segment loop processes the selected segments in ascending index
\* order, one at a time: the generation call for the segment with the next
\* higher index is issued only after the current segment's status has been
\* written as COMPLETED or FAILED.
C30_AscendingOneAtATime ==
  \A t \in Tasks :
    tasks[t].pc \in {"gq_mark", "gen_call", "gen_delay", "gq_insert", "gq_done", "gq_fail"} =>
      /\ \A j \in 1..(Len(tasks[t].sel) - 1) :
           segments[tasks[t].sel[j]].index < segments[tasks[t].sel[j + 1]].index
      /\ \A j \in 1..(tasks[t].k - 1) :
           segments[tasks[t].sel[j]].status \in {"COMPLETED", "FAILED"}
      /\ \A j \in (tasks[t].k + 1)..Len(tasks[t].sel) :
           /\ segments[tasks[t].sel[j]].status # "GENERATING_QUESTIONS"
           /\ questions[tasks[t].sel[j]] = <<>>
      /\ \A i \in 1..Len(segments) :
           segments[i].status = "GENERATING_QUESTIONS" =>
             i = tasks[t].sel[tasks[t].k]

\* C30 witness: the generation call for segment 1 is in flight, segment 0
\* having been written FAILED
C30_Witness ==
  \E t \in Tasks :
    /\ tasks[t].pc = "gen_call"
    /\ Len(tasks[t].sel) = 2
    /\ tasks[t].k = 2
    /\ segments[tasks[t].sel[1]].index = 0
    /\ segments[tasks[t].sel[1]].status = "FAILED"
    /\ segments[tasks[t].sel[2]].index = 1
    /\ segments[tasks[t].sel[2]].status = "GENERATING_QUESTIONS"

\* C31: every phase transition is persisted before the phase's work starts:
\* PROCESSING is written before TRANSCRIBING, the file-existence check and the
\* transcription remote call are performed only after TRANSCRIBING has been
\* written, and on failure the FAILED status and the error text are written
\* together in one update.
C31_StatusBeforeWork ==
  /\ [](tasks[Uploader].pc = "tv_status" =>
          tasks[Uploader].log = <<"PROCESSING">> /\ vStatus = "PROCESSING")
  /\ [](tasks[Uploader].pc \in {"tv_file", "ta_call", "ta_delay", "tv_save"} =>
          tasks[Uploader].log = <<"PROCESSING", "TRANSCRIBING">> /\ vStatus = "TRANSCRIBING")
  /\ [][(vStatus # "FAILED" /\ vStatus' = "FAILED") =>
          /\ ~MsgEmpty(vError')
          /\ vError' = tasks[Uploader].err
          /\ tasks[Uploader].pc = "pv_failed"]_vars

\* C31 witness: the run failed in transcription after writing PROCESSING and
\* TRANSCRIBING, and its catch has stored FAILED with the error text
C31_Witness ==
  /\ tasks[Uploader].op = "upload"
  /\ tasks[Uploader].pc = "up_failed"
  /\ tasks[Uploader].log = <<"PROCESSING", "TRANSCRIBING", "FAILED">>
  /\ tasks[Uploader].taExhausted
  /\ vStatus = "FAILED"
  /\ vError = tasks[Uploader].err
  /\ vError[1] = "Transcription failed: "

\* C32: when a pipeline run fails in a phase after earlier phases wrote data,
\* the transition to FAILED changes only the video's status and error: the
\* stored transcript and duration, the segments already inserted and the
\* Questions already persisted are left unchanged (no rollback).
C32_FailedKeepsArtifacts ==
  [][(\E t \in Tasks :
        /\ tasks[t].pc \in {"pv_failed", "up_failed", "ev_failed"}
        /\ tasks'[t].pc # tasks[t].pc) =>
       /\ vStatus' = "FAILED"
       /\ vMeta' = vMeta
       /\ segments' = segments
       /\ questions' = questions]_vars

\* C32 witness: a run failed in transcription and wrote FAILED while the
\* transcript, the segments and the Questions of an earlier run are stored
C32_Witness ==
  /\ vStatus = "FAILED"
  /\ vError # <<>>
  /\ \E t \in Tasks :
       /\ tasks[t].op = "event"
       /\ tasks[t].pc = "done"
       /\ tasks[t].log = <<"PROCESSING", "TRANSCRIBING", "FAILED", "FAILED">>
  /\ vMeta.hasTranscript /\ vMeta.transcript # <<>>
  /\ segments # <<>>
  /\ \E s \in 1..Len(questions) : questions[s] # <<>>

\* C33: word allocation of the Segmenter partitions the transcript: with W
\* words, N segments and wordsPerSegment = ceil(W/N), segment i receives
\* exactly the words [i*wordsPerSegment, min((i+1)*wordsPerSegment, W)) joined
\* by single spaces, every word lies in the range of exactly one segment, in
\* order, and a segment whose start offset is at or past W gets only the
\* placeholder.
C33_WordAllocationPartitions ==
  \A t \in Tasks :
    tasks[t].pc = "st_insert" =>
      LET batch == tasks[t].batch
          words == SplitWs(vMeta.transcript)
          W == Len(words)
          N == Len(batch)
          wordsPerSegment == CeilDiv(W, N)
          lo(i) == i * wordsPerSegment
          hi(i) == Min((i + 1) * wordsPerSegment, W)
      IN  /\ \A p \in 0..(W - 1) :
               /\ p \div wordsPerSegment < N
               /\ \A i \in 0..(N - 1) :
                    (lo(i) <= p /\ p < hi(i)) <=> i = p \div wordsPerSegment
          /\ \A i \in 0..(N - 1) :
               /\ lo(i) < W =>
                    batch[i + 1].text = JoinSp(SubSeq(words, lo(i) + 1, hi(i)))
               /\ lo(i) >= W =>
                    batch[i + 1].text = <<"S", "e", "g", "m", "e", "n", "t", " ">> \o NatStr(i + 1)
                                          \o <<" ", "o", "f", " ">> \o NatStr(N)

\* C34: each upload-triggered run terminates: if every remote call and every
\* persistence operation eventually returns or fails, startTranscriptionProcess
\* returns after finitely many steps, with at most 3 transcription calls and at
\* most 3 generation calls per selected segment.
C34_UploadRunTerminates ==
  /\ [](\A t \in Tasks :
          /\ tasks[t].attempt \in 0..3
          /\ tasks[t].pc \in {"ta_call", "ta_delay", "gen_call", "gen_delay"} =>
               tasks[t].attempt >= 1
          /\ tasks[t].pc \in {"ta_delay", "gen_delay"} => tasks[t].attempt < 3)
  /\ (tasks[Uploader].op = "upload" ~> tasks[Uploader].pc = "done")

\* C34 witness: the run has returned after its third transcription call failed
C34_Witness ==
  /\ tasks[Uploader].op = "upload"
  /\ tasks[Uploader].ret = "video"
  /\ tasks[Uploader].pc = "done"
  /\ tasks[Uploader].taExhausted
  /\ tasks[Uploader].log = <<"PROCESSING", "TRANSCRIBING", "FAILED", "FAILED">>

\* C35: when generateQuestionsForVideo returns normally, every segment it
\* selected for processing has status COMPLETED or FAILED; none is left in
\* GENERATING_QUESTIONS.
C35_SelectedSegmentsSettled ==
  /\ [][\A t \in Tasks :
          (tasks[t].pc \in {"gq_done", "gq_fail"} /\ tasks'[t].pc \notin LoopPcs) =>
            \A j \in 1..Len(tasks[t].sel) :
              segments'[tasks[t].sel[j]].status \in {"COMPLETED", "FAILED"}]_vars
  /\ [](\A t \in Tasks :
          tasks[t].pc = "pv_completed" =>
            \A i \in 1..Len(segments) : segments[i].status # "GENERATING_QUESTIONS")

\* C35 witness: generateQuestionsForVideo has returned to processVideo with
\* one selected segment FAILED and the other COMPLETED
C35_Witness ==
  \E t \in Tasks :
    /\ tasks[t].pc = "pv_completed"
    /\ Len(segments) = 2
    /\ segments[1].status = "FAILED"
    /\ segments[2].status = "COMPLETED"

\* C36: a segment whose status is FAILED (or was left in GENERATING_QUESTIONS)
\* is never selected again: a later invocation of generateQuestionsForVideo
\* issues no generation call for it and leaves its status, error and Questions
\* unchanged.
C36_FailedNeverReselected ==
  /\ [](\A i \in 1..Len(segments) :
          segments[i].status \in {"FAILED", "GENERATING_QUESTIONS"} =>
            \A j \in 1..Len(SelectSegments) : SelectSegments[j] # i)
  /\ [](\A t \in Tasks :
          tasks[t].pc \in {"gen_call", "gen_delay", "gq_insert", "gq_done"} =>
            segments[tasks[t].seg].status # "FAILED")
  /\ [][\A i \in 1..Len(segments) :
          segments[i].status = "FAILED" =>
            /\ segments'[i] = segments[i]
            /\ questions'[i] = questions[i]]_vars

\* C36 witness: a later run is in its generation call for one segment while
\* a segment that an earlier run marked FAILED is stored and not selected
C36_Witness ==
  \E t \in Tasks :
    /\ tasks[t].op = "event"
    /\ tasks[t].pc = "gen_call"
    /\ \E i \in 1..Len(segments) :
         /\ segments[i].status = "FAILED"
         /\ segments[i].error # <<>>
         /\ \A j \in 1..Len(tasks[t].sel) : tasks[t].sel[j] # i

\* C37: processing one segment in the loop, whether it ends COMPLETED or
\* FAILED, leaves the status, error and Questions of every other segment
\* unchanged and never writes the video's status, error, transcript or duration.
C37_SegmentProcessingFrame ==
  [][\A t \in Tasks :
       (/\ tasks[t].pc \in {"gq_mark", "gen_call", "gen_delay", "gq_insert", "gq_done", "gq_fail"}
        /\ tasks'[t] # tasks[t]) =>
         /\ vStatus' = vStatus
         /\ vError' = vError
         /\ vMeta' = vMeta
         /\ Len(segments') = Len(segments)
         /\ \A i \in 1..Len(segments) :
              i # tasks[t].sel[tasks[t].k] =>
                /\ segments'[i] = segments[i]
                /\ questions'[i] = questions[i]]_vars

\* C37 witness: segment 0 ended FAILED and segment 1 COMPLETED with
\* Questions, the video still TRANSCRIBING as before the loop
C37_Witness ==
  /\ Len(segments) = 2
  /\ segments[1].status = "FAILED" /\ segments[1].error # <<>> /\ questions[1] = <<>>
  /\ segments[2].status = "COMPLETED" /\ segments[2].error = <<>> /\ questions[2] # <<>>
  /\ vStatus = "TRANSCRIBING"
  /\ vError = <<>>
  /\ tasks[Uploader].pc = "pv_completed"

\* C38: in every reachable state a video whose error text is non-empty has
\* status FAILED: no operation (in particular startTranscription on a
\* previously failed video) leaves a stale error on a video whose status is
\* not FAILED.
C38_ErrorOnlyWhenFailed ==
  ~MsgEmpty(vError) => vStatus = "FAILED"

\* C39: for a segment whose text is empty or only white space,
\* generateQuestions returns an empty list without issuing any remote call or
\* waiting, and the segment then reaches COMPLETED with zero Questions.
C39_BlankTextNoCall ==
  /\ [](\A t \in Tasks :
          tasks[t].pc \in {"gen_call", "gen_delay", "gq_insert", "gq_fail"} =>
            Trim(segments[tasks[t].seg].text) # <<>>)
  /\ [](\A i \in 1..Len(segments) :
          Trim(segments[i].text) = <<>> =>
            /\ questions[i] = <<>>
            /\ segments[i].status # "FAILED")
  /\ [][\A t \in Tasks :
          (/\ tasks[t].pc = "gq_mark"
           /\ tasks'[t].pc # "gq_mark"
           /\ Trim(segments[tasks[t].sel[tasks[t].k]].text) = <<>>) =>
            /\ tasks'[t].pc = "gq_done"
            /\ tasks'[t].docs = <<>>
            /\ tasks'[t].attempt = 0 /\ tasks'[t].wait = 0]_vars
  /\ [][\A t \in Tasks :
          (tasks[t].pc = "gq_done" /\ tasks'[t] # tasks[t]) =>
            /\ segments'[tasks[t].seg].status = "COMPLETED"
            /\ questions'[tasks[t].seg] = questions[tasks[t].seg]]_vars

\* C39 witness: the segment whose text is a single space is COMPLETED with
\* zero Questions and the invocation that processed it has returned
C39_Witness ==
  /\ Len(segments) = 1
  /\ segments[1].text = <<" ">>
  /\ segments[1].status = "COMPLETED"
  /\ questions[1] = <<>>
  /\ \E t \in Tasks :
       /\ tasks[t].op = "generateQuestions"
       /\ tasks[t].pc = "done"
       /\ tasks[t].outcome = "notext"

====
